---- MODULE Spec2Model ----
\* State-machine model of PriceMonitorService (src/services/price_monitor_service.py):
\* the trigger registry, the monitor loop task and the re-entry executors.
\*
\* Granularity.  The service runs on one asyncio event loop, so code between two
\* suspension points is atomic.  The loop task suspends only at
\*   - asyncio.sleep(interval)                 (pc = "sleep" / "sleep_err")
\*   - await trading_engine.process_alert(..)  (pc = "exit_await")
\*   - await profit_manager.book_individual_order(..)    (pc = "pb_book_await")
\*   - await profit_manager.check_and_progress_chain(..) (pc = "pb_progress_await")
\* (_execute_sl_hunt_reentry and _execute_tp_continuation_reentry contain no await
\* that suspends).  Calls from the other control path (start, stop, register_*,
\* stop_*) are therefore enabled only while the loop task is suspended, not yet
\* started, or finished.  One evaluation of one pending trigger is one action.
\*
\* Prices are integers on a grid of ticks; the pip of XAUUSD is 1 tick, the pip of any
\* other symbol 2 ticks.
\*
\* The stop-loss arithmetic (the SL adjustment factor of the executors and
\* ProfitBookingSLCalculator of src/utils/profit_sl_calculator.py) is modelled with
\* exact rationals in place of Python floats.
EXTENDS Integers, Sequences, FiniteSets, TLC

VARIABLES
    config,                     \* self.config: the flags the service reads
    is_running,                 \* self.is_running
    pc,                         \* position of the task self.monitor_task
    todo,                       \* rest of the list(pending.keys()) snapshot being iterated
    cur,                        \* symbol whose process_alert call is awaited
    sl_hunt_pending,            \* self.sl_hunt_pending: symbol -> record
    tp_continuation_pending,    \* self.tp_continuation_pending
    exit_continuation_pending,  \* self.exit_continuation_pending
    monitored_symbols,          \* self.monitored_symbols
    active_chains,              \* reentry_manager.active_chains: chain id -> chain
    open_trades,                \* trading_engine.open_trades
    trade_inputs,               \* the Trade objects the trade-lifecycle path can hand in
    applied,                    \* history: <<kind, symbol>> of the pending SL-hunt / TP-continuation
                                \* triggers whose registration has already produced a re-entry
    last,                       \* history: the latest trigger evaluation of the running cycle
    monitor_tasks,              \* number of _monitor_loop tasks created and not yet ended
    call,                       \* history: the latest call of the registry interface
    profit_chains,              \* profit_manager's chains: chain id -> chain
    pb_todo,                    \* chains the profit-booking pass has still to visit
    pb_chain,                   \* chain the profit-booking pass is working on
    orders_to_book,             \* orders of pb_chain still to be handed to the booking
    pb_order,                   \* order whose book_individual_order call is awaited
    booked,                     \* history: order -> number of successful bookings
    book_calls,                 \* history: order -> booking calls made in this cycle
    pb_failed,                  \* history: chains whose processing raised in this cycle
    sizing,                     \* history: the latest stop-loss computation and its result
    registered_in_await,        \* history: an exit-continuation trigger was registered for
                                \* cur while its process_alert call is awaited
    sl_pass_reentries           \* history: symbols whose SL-hunt trigger made a re-entry in
                                \* the SL-hunt pass of the running cycle, kept until the
                                \* TP-continuation pass of that cycle ends

vars == <<config, is_running, pc, todo, cur, sl_hunt_pending, tp_continuation_pending,
          exit_continuation_pending, monitored_symbols, active_chains, open_trades,
          trade_inputs, applied, last, monitor_tasks, call, profit_chains, pb_todo,
          pb_chain, orders_to_book, pb_order, booked, book_calls, pb_failed, sizing,
          registered_in_await, sl_pass_reentries>>

\* the state of the profit-booking pass and of the profit-booking manager
profit_vars == <<profit_chains, pb_todo, pb_chain, orders_to_book, pb_order, booked,
                 book_calls, pb_failed>>

-----------------------------------------------------------------------------
\* Bounds and input sets

MaxLevel == 2                   \* max_level of a re-entry chain (configured ceiling)

Symbols == {"XAUUSD", "EURUSD"}
ConfiguredSymbols == {"XAUUSD", "EURUSD"}       \* keys of config["symbol_config"]
Directions == {"buy", "sell"}
Logics == {"LOGIC1"}
None == "None"

\* A chain belongs to one symbol; EURUSD's chain is no longer in the chain store.
ChainOf(symbol) == IF symbol = "XAUUSD" THEN "chain_XAUUSD" ELSE "chain_EURUSD"
LiveChainIds == {"chain_XAUUSD"}

RefPrices == {0, 10}            \* stop-loss / take-profit / exit price handed to register_*

\* ticks the price source returns for a trigger: below, at and above its target
Prices(target_price) == {target_price - 1, target_price, target_price + 1}

\* alignment results of trend_manager.check_logic_alignment
Alignments == [aligned : BOOLEAN, direction : {"BULLISH", "BEARISH"}]

\* Trade objects handed to the register_* calls: a trade carries the chain of its
\* symbol or none
AllTrades == {t \in [symbol : Symbols, direction : Directions,
                     chain_id : {None, "chain_XAUUSD", "chain_EURUSD"}, sl : RefPrices] :
                  t.chain_id \in {None, ChainOf(t.symbol)}}

\* the trades of the main specification: buys on XAUUSD, sells on EURUSD
MainTrades == {t \in AllTrades : t.direction = (IF t.symbol = "XAUUSD" THEN "buy" ELSE "sell")}

\* outcomes of mt5_client.place_order: a ticket, a failure value, or an exception
BrokerOutcomes == {"ticket", "failure", "raise"}
\* the step after the chain advance that raises, if any
SlHuntFaults == {"none", "bookkeeping", "notify"}
TpFaults == {"none", "bookkeeping", "audit", "notify"}

\* Inputs of the registry specification: a configured symbol traded in both directions,
\* an unconfigured symbol, and reference prices of either sign
RegistrySymbols == {"XAUUSD", "GBPUSD"}
RegistryPrices == {-10, 0, 10}
RegistryTrades == {t \in [symbol : RegistrySymbols, direction : Directions,
                          chain_id : {None, "chain_XAUUSD", "chain_EURUSD"},
                          sl : RegistryPrices] :
                      /\ t.chain_id \in {None, ChainOf(t.symbol)}
                      /\ t.symbol = "GBPUSD" => t.direction = "buy"}
\* the continuation registrations read no stop-loss: one stop-loss value is enough
ContinuationTrades(trades) == {t \in trades : t.sl = 10}

\* Profit booking: one chain, two orders at level 0 and one at level 1
MaxProfitLevel == 1
ProfitChainIds == {"PB1"}
Orders == {"o1", "o2", "o3"}
OrderLevel(order) == IF order = "o3" THEN 1 ELSE 0
\* results of an awaited book_individual_order call
BookOutcomes == {"success", "failure", "raise"}

-----------------------------------------------------------------------------
\* Numbers of the stop-loss arithmetic: a Python float is a rational [num, den] in
\* lowest terms with den > 0

RECURSIVE GCD(_, _)
GCD(a, b) == IF b = 0 THEN a ELSE GCD(b, a % b)

Abs(n) == IF n < 0 THEN -n ELSE n

Rat(n, d) ==
    LET g == GCD(Abs(n), Abs(d))
        s == IF d < 0 THEN -1 ELSE 1
    IN  [num |-> (s * n) \div g, den |-> (s * d) \div g]

RatAdd(a, b) == Rat(a.num * b.den + b.num * a.den, a.den * b.den)
RatSub(a, b) == Rat(a.num * b.den - b.num * a.den, a.den * b.den)
RatMul(a, b) == Rat(a.num * b.num, a.den * b.den)
\* a / b for b # 0 (the callers test for the ZeroDivisionError first)
RatDiv(a, b) == Rat(a.num * b.den, a.den * b.num)
RatAbs(a) == [num |-> Abs(a.num), den |-> a.den]
RatLeq(a, b) == a.num * b.den <= b.num * a.den

\* a ** n for an integer n >= 0; x ** 0 is 1 for every x, 0 included
RECURSIVE RatPow(_, _)
RatPow(a, n) == IF n = 0 THEN Rat(1, 1) ELSE RatMul(a, RatPow(a, n - 1))

-----------------------------------------------------------------------------
\* Configuration read by the service

OffsetPips == 1                 \* re_entry_config["sl_hunt_offset_pips"]
GapPips == 2                    \* re_entry_config["tp_continuation_price_gap_pips"]

\* symbol_config[symbol]["pip_size"], in ticks of the price grid
pip_size(symbol) == IF symbol = "XAUUSD" THEN 1 ELSE 2

LiveConfig == [simulate_orders |-> FALSE, sl_hunt_reentry_enabled |-> TRUE,
               tp_reentry_enabled |-> TRUE, exit_continuation_enabled |-> TRUE,
               sl_reduction_per_level |-> Rat(1, 2)]

-----------------------------------------------------------------------------
\* SL adjustment of the re-entry executors

\* values of re_entry_config["sl_reduction_per_level"], all in (0, 1]
Reductions == {Rat(1, 10), Rat(1, 4), Rat(1, 2), Rat(1, 1)}

\* the factor with 1 + reduction_per_level for 1 - reduction_per_level
sl_adjustment_grows(reduction_per_level, current_level) ==
    RatPow(RatAdd(Rat(1, 1), reduction_per_level), current_level)

\* (1 - reduction_per_level) ** current_level, tabulated for the reductions and levels
\* of the model
Powers ==
    [reduction_per_level \in Reductions |->
        [current_level \in 0..(MaxLevel + 1) |->
            RatPow(RatSub(Rat(1, 1), reduction_per_level), current_level)]]

\* `sl_adjustment = (1 - reduction_per_level) ** chain.current_level`
sl_adjustment(reduction_per_level, current_level) ==
    Powers[reduction_per_level][current_level]

\* `sl_reduction_percent = (1 - sl_adjustment) * 100`
sl_reduction_percent(adjustment) == RatMul(RatSub(Rat(1, 1), adjustment), Rat(100, 1))

-----------------------------------------------------------------------------
\* ProfitBookingSLCalculator

\* config["symbol_config"] as the calculator reads it; GBPUSD has no entry
symbol_config ==
    [s \in {"XAUUSD", "EURUSD"} |->
        IF s = "XAUUSD" THEN [pip_size |-> Rat(1, 100), pip_value_per_std_lot |-> Rat(1, 1)]
        ELSE [pip_size |-> Rat(1, 10000), pip_value_per_std_lot |-> Rat(10, 1)]]

SizerSymbols == {"XAUUSD", "EURUSD", "GBPUSD"}
EntryPrices == {Rat(1, 1), Rat(11, 10), Rat(2000, 1)}
LotSizes == {Rat(0, 1), Rat(1, 100), Rat(1, 10), Rat(1, 1)}

\* `self.fixed_sl_dollar = 10.0`
fixed_sl_dollar == Rat(10, 1)

NoNumber == "None"

Returned(sl_price, sl_distance) ==
    [outcome |-> "returned", sl_price |-> sl_price, sl_distance |-> sl_distance]

\* the computation of the try body (lines 34-50) and of the KeyError handler (58-67)
sl_for_fixed_loss(entry_price, direction, pip_sz, pip_value_per_std_lot, lot_size) ==
    LET pip_value == RatMul(pip_value_per_std_lot, lot_size) IN
    IF pip_value.num = 0
    THEN [outcome |-> "ZeroDivisionError", sl_price |-> NoNumber, sl_distance |-> NoNumber]
    ELSE LET sl_pips == RatDiv(fixed_sl_dollar, pip_value)
             sl_distance == RatMul(sl_pips, pip_sz)
         IN  Returned(IF direction = "buy" THEN RatSub(entry_price, sl_distance)
                      ELSE RatAdd(entry_price, sl_distance), sl_distance)

\* calculate_sl_price.  An exception of the try body other than KeyError is answered
\* by `except Exception` with the safe fallback 0.01 * 50; an exception raised inside
\* the `except KeyError` handler is not caught by the sibling clause and leaves the call.
calculate_sl_price(entry_price, direction, symbol, lot_size) ==
    IF symbol \in DOMAIN symbol_config
    THEN LET x == sl_for_fixed_loss(entry_price, direction, symbol_config[symbol].pip_size,
                                    symbol_config[symbol].pip_value_per_std_lot, lot_size)
         IN  IF x.outcome = "returned" THEN x
             ELSE Returned(IF direction = "buy" THEN RatSub(entry_price, Rat(1, 2))
                           ELSE RatAdd(entry_price, Rat(1, 2)), Rat(1, 2))
    ELSE LET x == sl_for_fixed_loss(entry_price, direction, Rat(1, 100), Rat(10, 1), lot_size)
         IN  IF x.outcome = "returned" THEN x
             ELSE [outcome |-> "raised", sl_price |-> NoNumber, sl_distance |-> NoNumber]

\* get_pip_value: the pip value of the lot, 10.0 per standard lot on KeyError
get_pip_value(symbol, lot_size) ==
    IF symbol \in DOMAIN symbol_config
    THEN RatMul(symbol_config[symbol].pip_value_per_std_lot, lot_size)
    ELSE RatMul(Rat(10, 1), lot_size)

\* validate_sl_loss: the KeyError of an unconfigured symbol is caught by
\* `except Exception` and answered with valid False
validate_sl_loss(entry_price, sl_price, direction, symbol, lot_size) ==
    IF symbol \notin DOMAIN symbol_config
    THEN [valid |-> FALSE, actual_loss |-> Rat(0, 1), expected_loss |-> fixed_sl_dollar,
          difference |-> fixed_sl_dollar, error |-> TRUE]
    ELSE LET pip_value == RatMul(symbol_config[symbol].pip_value_per_std_lot, lot_size)
             price_diff == RatAbs(RatSub(entry_price, sl_price))
             pips == RatDiv(price_diff, symbol_config[symbol].pip_size)
             actual_loss == RatMul(pips, pip_value)
             tolerance == RatMul(fixed_sl_dollar, Rat(1, 20))
             difference == RatAbs(RatSub(actual_loss, fixed_sl_dollar))
         IN  [valid |-> RatLeq(difference, tolerance), actual_loss |-> actual_loss,
              expected_loss |-> fixed_sl_dollar, difference |-> difference,
              error |-> FALSE]

NoSizing == [op |-> "none", args |-> [none |-> TRUE], result |-> [none |-> TRUE]]

-----------------------------------------------------------------------------
\* Pure helpers

\* the comparisons without equality
price_reached_strict(direction, current_price, target_price) ==
    IF direction = "buy" THEN current_price > target_price
                         ELSE current_price < target_price

\* price_reached / gap_reached of the three checks
price_reached(direction, current_price, target_price) ==
    IF direction = "buy" THEN current_price >= target_price
                         ELSE current_price <= target_price

\* target fixed by register_sl_hunt
sl_hunt_target_price(direction, sl, symbol) ==
    IF direction = "buy" THEN sl + (OffsetPips * pip_size(symbol))
                         ELSE sl - (OffsetPips * pip_size(symbol))

\* a target that leaves the pip size out of the gap
continuation_target_price_unscaled(direction, ref_price, symbol) ==
    IF direction = "buy" THEN ref_price + GapPips ELSE ref_price - GapPips

\* target computed by the TP-continuation and exit-continuation checks
continuation_target_price(direction, ref_price, symbol) ==
    IF direction = "buy" THEN ref_price + (GapPips * pip_size(symbol))
                         ELSE ref_price - (GapPips * pip_size(symbol))

\* the two alignment tests made once the price is reached
alignment_verdict(alignment, direction) ==
    LET signal_direction == IF direction = "buy" THEN "BULLISH" ELSE "BEARISH" IN
    IF ~alignment.aligned THEN "not_aligned"
    ELSE IF alignment.direction # signal_direction THEN "mismatch"
    ELSE "pass"

\* the level test with > for >=
chain_blocked_off_by_one(chain_id) ==
    \/ chain_id \notin DOMAIN active_chains
    \/ active_chains[chain_id].current_level > active_chains[chain_id].max_level

\* the guard without its level test
chain_blocked_only_if_unknown(chain_id) == chain_id \notin DOMAIN active_chains

\* `if not chain or chain.current_level >= chain.max_level: return`
chain_blocked(chain_id) ==
    \/ chain_id \notin DOMAIN active_chains
    \/ active_chains[chain_id].current_level >= active_chains[chain_id].max_level

\* reentry_manager.update_chain_level: one level up; no-op if unknown or at max level
update_chain_level(chains, chain_id) ==
    IF chain_id \in DOMAIN chains /\ chains[chain_id].current_level < chains[chain_id].max_level
    THEN [chains EXCEPT ![chain_id].current_level = @ + 1]
    ELSE chains

\* `del pending[symbol]`
del(pending, symbol) == [s \in (DOMAIN pending) \ {symbol} |-> pending[s]]

\* the value _get_current_price can return: None in simulation mode
PriceAvailable == ~config.simulate_orders

\* a lookup that answers with a default entry
symbol_config_defaulted(symbol) == FALSE

\* `symbol_config = self.config["symbol_config"][symbol]` raises KeyError
symbol_config_missing(symbol) == symbol \notin ConfiguredSymbols

\* what the terminal quotes when _get_current_price returns None: no tick (0) in live
\* mode; in simulation mode the terminal is not asked, whatever it quotes
UnreadQuotes(target_price) == IF config.simulate_orders THEN Prices(target_price) ELSE {0}

\* the alignment result an evaluation obtained from the gate, if it called it
NoGate == [called |-> FALSE, aligned |-> FALSE, direction |-> "NONE"]
Gate(alignment) == [called |-> TRUE, aligned |-> alignment.aligned,
                    direction |-> alignment.direction]

\* the row of tp_reentry_events an evaluation wrote, if audit is TRUE
NoAuditRow == [chain_id |-> None, symbol |-> None, level |-> 0, price |-> 0,
               sl_reduction_percent |-> Rat(0, 1)]

\* the Alert an evaluation handed to trading_engine.process_alert, if order is "alert"
NoAlert == [symbol |-> None, signal |-> None, type |-> None, price |-> 0]

\* the entry signal with the opposite side
entry_signal_reversed(symbol, direction, current_price) ==
    [symbol |-> symbol, signal |-> IF direction = "buy" THEN "sell" ELSE "buy",
     type |-> "entry", price |-> current_price]

\* `Alert(symbol, tf, signal='buy' if direction == 'buy' else 'sell', type='entry',
\* price=current_price)`; tf is left out
entry_signal(symbol, direction, current_price) ==
    [symbol |-> symbol, signal |-> IF direction = "buy" THEN "buy" ELSE "sell",
     type |-> "entry", price |-> current_price]

NoEval == [kind |-> "none", sym |-> "none", price_ok |-> FALSE, price |-> 0,
           gate |-> NoGate, order |-> "not_called", result |-> "none",
           audit |-> FALSE, notify |-> FALSE, row |-> NoAuditRow, alert |-> NoAlert]

Eval(kind, sym, price_ok, price, gate, order, result, audit, notify) ==
    [kind |-> kind, sym |-> sym, price_ok |-> price_ok, price |-> price, gate |-> gate,
     order |-> order, result |-> result, audit |-> audit, notify |-> notify,
     row |-> NoAuditRow, alert |-> NoAlert]

\* the snapshot with every count taken from the monitored-symbol set
StatusCountsMonitored(running, task_active, monitored, sl_hunt, tp_continuation, exit_continuation) ==
    [service_running |-> running,
     monitor_task_active |-> task_active,
     monitored_symbols |-> monitored,
     pending_counts |-> [sl_hunt |-> Cardinality(monitored),
                         tp_continuation |-> Cardinality(monitored),
                         exit_continuation |-> Cardinality(monitored)],
     pending_details |-> [sl_hunt |-> sl_hunt,
                          tp_continuation |-> tp_continuation,
                          exit_continuation |-> exit_continuation]]

\* the snapshot get_service_status returns (configuration part left out)
Status(running, task_active, monitored, sl_hunt, tp_continuation, exit_continuation) ==
    [service_running |-> running,
     monitor_task_active |-> task_active,
     monitored_symbols |-> monitored,
     pending_counts |-> [sl_hunt |-> Cardinality(DOMAIN sl_hunt),
                         tp_continuation |-> Cardinality(DOMAIN tp_continuation),
                         exit_continuation |-> Cardinality(DOMAIN exit_continuation)],
     pending_details |-> [sl_hunt |-> sl_hunt,
                          tp_continuation |-> tp_continuation,
                          exit_continuation |-> exit_continuation]]

NoStatus == Status(FALSE, FALSE, {}, << >>, << >>, << >>)

\* no call of the registry interface recorded
NoCall == [op |-> "none", symbol |-> "none", outcome |-> "none", status |-> NoStatus]

\* points at which the loop task is suspended, not started or finished
EnvPoints == {"no_task", "created", "sleep", "sleep_err", "exit_await", "pb_book_await",
              "pb_progress_await", "done"}

-----------------------------------------------------------------------------
\* the service after __init__, its collaborators as the embedding application made them
ServiceInit ==
    /\ config = LiveConfig
    /\ is_running = FALSE
    /\ pc = "no_task"
    /\ todo = {}
    /\ cur = None
    /\ sl_hunt_pending = << >>
    /\ tp_continuation_pending = << >>
    /\ exit_continuation_pending = << >>
    /\ monitored_symbols = {}
    /\ active_chains = [c \in LiveChainIds |-> [current_level |-> 0, max_level |-> MaxLevel]]
    /\ open_trades = << >>
    /\ applied = {}
    /\ last = NoEval
    /\ monitor_tasks = 0
    /\ call = NoCall
    /\ pb_todo = {}
    /\ pb_chain = None
    /\ orders_to_book = {}
    /\ pb_order = None
    /\ booked = [o \in Orders |-> 0]
    /\ book_calls = [o \in Orders |-> 0]
    /\ pb_failed = {}
    /\ sizing = NoSizing
    /\ sl_pass_reentries = {}
    /\ registered_in_await = FALSE

\* re-entry monitoring with no profit-booking chain in the manager
Init ==
    /\ ServiceInit
    /\ trade_inputs = MainTrades
    /\ profit_chains = << >>

-----------------------------------------------------------------------------
\* Re-entry executors.  Each returns what the call leaves behind:
\*   chains, trades : the chain store and the open-trade list after the call
\*   order          : "not_called", or the outcome of mt5_client.place_order
\*   reentry        : the chain was advanced and the trade appended
\*   audit, notify  : the tp_reentry_events row was written / the message was sent
\*   row            : the row written, if audit
\*   raised         : an exception left the executor

NoReentry(order, raised) ==
    [chains |-> active_chains, trades |-> open_trades, order |-> order, reentry |-> FALSE,
     audit |-> FALSE, notify |-> FALSE, row |-> NoAuditRow, raised |-> raised]

\* the trade given the chain's level as it is, without the + 1
NewTradeAtChainLevel(symbol, direction, chain_id, trade_id) ==
    [symbol |-> symbol, chain_id |-> chain_id,
     chain_level |-> active_chains[chain_id].current_level,
     sl_adjustment |-> sl_adjustment(config.sl_reduction_per_level,
                                     active_chains[chain_id].current_level),
     trade_id |-> trade_id, is_re_entry |-> TRUE]

\* The trade of a re-entry.  Its stop-loss is pip_calculator.calculate_sl_price(...,
\* sl_adjustment): the record keeps the adjustment factor the stop-loss was sized with.
\* Trade fields no check reads (entry, tp, lot_size, direction, strategy, open_time)
\* are left out.
NewTrade(symbol, direction, chain_id, trade_id) ==
    [symbol |-> symbol, chain_id |-> chain_id,
     chain_level |-> active_chains[chain_id].current_level + 1,
     sl_adjustment |-> sl_adjustment(config.sl_reduction_per_level,
                                     active_chains[chain_id].current_level),
     trade_id |-> trade_id, is_re_entry |-> TRUE]

\* the tp_reentry_events row of lines 644-648.  `chain` is the object held in
\* active_chains, so `tp_level = chain.current_level + 1` (line 644), read after
\* update_chain_level (line 637), reads the advanced level.
audit_row(symbol, chain_id, price, chains_after, adjustment) ==
    [chain_id |-> chain_id, symbol |-> symbol,
     level |-> chains_after[chain_id].current_level + 1,
     price |-> price,
     sl_reduction_percent |-> sl_reduction_percent(adjustment)]

execute_sl_hunt_reentry(symbol, direction, chain_id, broker, fault) ==
    IF chain_blocked(chain_id) THEN NoReentry("not_called", FALSE)
    ELSE IF ~config.simulate_orders /\ broker = "raise" THEN NoReentry("raise", TRUE)
    ELSE
        LET order == IF config.simulate_orders THEN "not_called" ELSE broker
            trade == NewTrade(symbol, direction, chain_id,
                              IF order = "ticket" THEN "ticket" ELSE None)
        IN  [chains |-> update_chain_level(active_chains, chain_id),
             trades |-> Append(open_trades, trade),
             order |-> order,
             reentry |-> TRUE,
             audit |-> FALSE,
             notify |-> fault = "none",
             row |-> NoAuditRow,
             raised |-> fault # "none"]

execute_tp_continuation_reentry(symbol, direction, price, chain_id, broker, fault) ==
    IF chain_blocked(chain_id) THEN NoReentry("not_called", FALSE)
    ELSE IF ~config.simulate_orders /\ broker = "raise" THEN NoReentry("raise", TRUE)
    ELSE
        LET order == IF config.simulate_orders THEN "not_called" ELSE broker
            trade == NewTrade(symbol, direction, chain_id,
                              IF order = "ticket" THEN "ticket" ELSE None)
            chains_after == update_chain_level(active_chains, chain_id)
            audit == fault \in {"none", "notify"}
        IN  [chains |-> chains_after,
             trades |-> Append(open_trades, trade),
             order |-> order,
             reentry |-> TRUE,
             audit |-> audit,
             notify |-> fault = "none",
             row |-> IF audit
                     THEN audit_row(symbol, chain_id, price, chains_after,
                                    trade.sl_adjustment)
                     ELSE NoAuditRow,
             raised |-> fault # "none"]

\* the entry deleted only when a re-entry was made
after_execute_keeps_blocked(pending, symbol, x) ==
    IF x.raised \/ ~x.reentry THEN pending ELSE del(pending, symbol)

\* what a completed or aborted executor call means for the pending entry
after_execute(pending, symbol, x) == IF x.raised THEN pending ELSE del(pending, symbol)

\* the gate's rejection not followed by the deletion
after_gate_reject_keeps(pending, symbol) == pending

\* a trigger dropped by the alignment gate
after_gate_reject(pending, symbol) == del(pending, symbol)

\* the entry deleted when there is no price
after_no_price_drops(pending, symbol) == del(pending, symbol)

\* `if current_price is None: continue`
after_no_price(pending, symbol) == pending

\* price_reached / gap_reached is False: nothing is done for the trigger
after_not_reached(pending, symbol) == pending

applied_after(kind, symbol, x) ==
    IF x.raised /\ x.reentry THEN applied \cup {<<kind, symbol>>}
    ELSE IF x.raised THEN applied
    ELSE applied \ {<<kind, symbol>>}

-----------------------------------------------------------------------------
\* The monitor loop task

\* entering one of the three _check_* methods: flag test, then the key snapshot
\* a pass that snapshots its pending map whatever its flag says
EnterPassIgnoringFlag(kind) ==
    /\ pc' = kind
    /\ todo' = IF kind = "sl" THEN DOMAIN sl_hunt_pending
               ELSE IF kind = "tp" THEN DOMAIN tp_continuation_pending
               ELSE DOMAIN exit_continuation_pending

EnterPass(kind) ==
    /\ pc' = kind
    /\ todo' = IF kind = "sl" THEN (IF config.sl_hunt_reentry_enabled
                                    THEN DOMAIN sl_hunt_pending ELSE {})
               ELSE IF kind = "tp" THEN (IF config.tp_reentry_enabled
                                         THEN DOMAIN tp_continuation_pending ELSE {})
               ELSE (IF config.exit_continuation_enabled
                     THEN DOMAIN exit_continuation_pending ELSE {})

\* `while self.is_running:` body start, first run of the task or after a sleep
CycleStart ==
    /\ pc \in {"created", "sleep", "sleep_err"}
    /\ is_running
    /\ EnterPass("sl")
    /\ last' = NoEval
    /\ UNCHANGED <<config, trade_inputs, sizing, sl_pass_reentries, registered_in_await, call, profit_vars, monitor_tasks, is_running, cur, sl_hunt_pending, tp_continuation_pending,
                   exit_continuation_pending, monitored_symbols, active_chains,
                   open_trades, applied>>

\* assignment shared by the SL-hunt and TP-continuation iterations
ReentryIterationSet(chains, trades, ev, raised, app) ==
    /\ active_chains' = chains
    /\ open_trades' = trades
    /\ last' = ev
    /\ applied' = app
    /\ pc' = IF raised THEN "raised" ELSE pc
    /\ todo' = IF raised THEN {} ELSE todo \ {ev.sym}
    /\ sl_pass_reentries' = IF raised THEN {}
                            ELSE IF pc = "sl" /\ Len(trades) > Len(open_trades)
                            THEN sl_pass_reentries \cup {ev.sym}
                            ELSE sl_pass_reentries
    /\ UNCHANGED <<config, trade_inputs, sizing, registered_in_await, call, profit_vars, monitor_tasks, is_running, cur, exit_continuation_pending, monitored_symbols>>

\* one iteration of the for loop of _check_sl_hunt_reentries
check_sl_hunt_reentries(symbol) ==
    /\ pc = "sl"
    /\ symbol \in todo
    /\ UNCHANGED tp_continuation_pending
    /\ LET pending == sl_hunt_pending[symbol]
           direction == pending.direction
       IN
       \/ \* current_price is None
          \E quote \in UnreadQuotes(pending.target_price) :
          /\ sl_hunt_pending' = after_no_price(sl_hunt_pending, symbol)
          /\ ReentryIterationSet(active_chains, open_trades,
                Eval("sl", symbol, FALSE, quote, NoGate, "not_called", "no_price",
                     FALSE, FALSE), FALSE, applied)
       \/ \E current_price \in Prices(pending.target_price) :
            /\ PriceAvailable
            /\ IF ~price_reached(direction, current_price, pending.target_price)
               THEN /\ sl_hunt_pending' = after_not_reached(sl_hunt_pending, symbol)
                    /\ ReentryIterationSet(active_chains, open_trades,
                          Eval("sl", symbol, TRUE, current_price, NoGate,
                               "not_called", "not_reached", FALSE, FALSE), FALSE, applied)
               ELSE \E alignment \in Alignments :
                    LET verdict == alignment_verdict(alignment, direction) IN
                    IF verdict # "pass"
                    THEN /\ sl_hunt_pending' = after_gate_reject(sl_hunt_pending, symbol)
                         /\ ReentryIterationSet(active_chains, open_trades,
                               Eval("sl", symbol, TRUE, current_price, Gate(alignment),
                                    "not_called", "gate_drop", FALSE, FALSE), FALSE,
                               applied \ {<<"sl", symbol>>})
                    ELSE \E broker \in BrokerOutcomes, fault \in SlHuntFaults :
                         LET x == execute_sl_hunt_reentry(symbol, direction,
                                                          pending.chain_id, broker, fault)
                         IN
                         /\ sl_hunt_pending' = after_execute(sl_hunt_pending, symbol, x)
                         /\ ReentryIterationSet(x.chains, x.trades,
                               Eval("sl", symbol, TRUE, current_price, Gate(alignment), x.order,
                                    IF x.raised THEN "raised"
                                    ELSE IF x.reentry THEN "executed" ELSE "chain_drop",
                                    x.audit, x.notify),
                               x.raised, applied_after("sl", symbol, x))

\* _check_sl_hunt_reentries returns, _check_tp_continuation_reentries starts
sl_hunt_pass_done ==
    /\ pc = "sl"
    /\ todo = {}
    /\ EnterPass("tp")
    /\ last' = NoEval
    /\ UNCHANGED <<config, trade_inputs, sizing, sl_pass_reentries, registered_in_await, call, profit_vars, monitor_tasks, is_running, cur, sl_hunt_pending, tp_continuation_pending,
                   exit_continuation_pending, monitored_symbols, active_chains,
                   open_trades, applied>>

\* one iteration of the for loop of _check_tp_continuation_reentries
check_tp_continuation_reentries(symbol) ==
    /\ pc = "tp"
    /\ symbol \in todo
    /\ UNCHANGED sl_hunt_pending
    /\ LET pending == tp_continuation_pending[symbol]
           direction == pending.direction
       IN
       \/ \* current_price is None
          \E quote \in UnreadQuotes(continuation_target_price(direction, pending.tp_price,
                                                              symbol)) :
          /\ tp_continuation_pending' = after_no_price(tp_continuation_pending, symbol)
          /\ ReentryIterationSet(active_chains, open_trades,
                Eval("tp", symbol, FALSE, quote, NoGate, "not_called", "no_price",
                     FALSE, FALSE), FALSE, applied)
       \/ \E current_price \in Prices(continuation_target_price(direction, pending.tp_price,
                                                                symbol)) :
            /\ PriceAvailable
            /\ IF symbol_config_missing(symbol)
               THEN \* KeyError from config["symbol_config"][symbol]
                    /\ tp_continuation_pending' = tp_continuation_pending
                    /\ ReentryIterationSet(active_chains, open_trades,
                          Eval("tp", symbol, TRUE, current_price, NoGate,
                               "not_called", "raised", FALSE, FALSE), TRUE, applied)
               ELSE IF ~price_reached(direction, current_price,
                          continuation_target_price(direction, pending.tp_price, symbol))
               THEN /\ tp_continuation_pending' =
                           after_not_reached(tp_continuation_pending, symbol)
                    /\ ReentryIterationSet(active_chains, open_trades,
                          Eval("tp", symbol, TRUE, current_price, NoGate,
                               "not_called", "not_reached", FALSE, FALSE), FALSE, applied)
               ELSE \E alignment \in Alignments :
                    LET verdict == alignment_verdict(alignment, direction) IN
                    IF verdict # "pass"
                    THEN /\ tp_continuation_pending' =
                                after_gate_reject(tp_continuation_pending, symbol)
                         /\ ReentryIterationSet(active_chains, open_trades,
                               Eval("tp", symbol, TRUE, current_price, Gate(alignment),
                                    "not_called", "gate_drop", FALSE, FALSE), FALSE,
                               applied \ {<<"tp", symbol>>})
                    ELSE \E broker \in BrokerOutcomes, fault \in TpFaults :
                         LET x == execute_tp_continuation_reentry(symbol, direction,
                                        current_price, pending.chain_id, broker, fault)
                         IN
                         /\ tp_continuation_pending' =
                                after_execute(tp_continuation_pending, symbol, x)
                         /\ ReentryIterationSet(x.chains, x.trades,
                               [Eval("tp", symbol, TRUE, current_price, Gate(alignment),
                                     x.order,
                                     IF x.raised THEN "raised"
                                     ELSE IF x.reentry THEN "executed" ELSE "chain_drop",
                                     x.audit, x.notify) EXCEPT !.row = x.row],
                               x.raised, applied_after("tp", symbol, x))

\* _check_tp_continuation_reentries returns, _check_exit_continuation_reentries starts
tp_continuation_pass_done ==
    /\ pc = "tp"
    /\ todo = {}
    /\ EnterPass("exit")
    /\ last' = NoEval
    /\ sl_pass_reentries' = {}
    /\ UNCHANGED <<config, trade_inputs, sizing, registered_in_await, call, profit_vars, monitor_tasks, is_running, cur, sl_hunt_pending, tp_continuation_pending,
                   exit_continuation_pending, monitored_symbols, active_chains,
                   open_trades, applied>>

\* the iteration set read again from the live map after every iteration
ExitIterationSetRescans(pending, ev, next_pc, app) ==
    /\ exit_continuation_pending' = pending
    /\ last' = ev
    /\ applied' = app
    /\ pc' = next_pc
    /\ todo' = IF next_pc = "raised" THEN {} ELSE DOMAIN pending
    /\ cur' = IF next_pc = "exit_await" THEN ev.sym ELSE None
    /\ UNCHANGED <<config, trade_inputs, sizing, sl_pass_reentries, registered_in_await, call, profit_vars, monitor_tasks, is_running, sl_hunt_pending, tp_continuation_pending,
                   monitored_symbols, active_chains, open_trades>>

\* assignment shared by the branches of the exit-continuation iteration
ExitIterationSet(pending, ev, next_pc, app) ==
    /\ exit_continuation_pending' = pending
    /\ last' = ev
    /\ applied' = app
    /\ pc' = next_pc
    /\ todo' = IF next_pc = "raised" THEN {} ELSE todo \ {ev.sym}
    /\ cur' = IF next_pc = "exit_await" THEN ev.sym ELSE None
    /\ UNCHANGED <<config, trade_inputs, sizing, sl_pass_reentries, registered_in_await, call, profit_vars, monitor_tasks, is_running, sl_hunt_pending, tp_continuation_pending,
                   monitored_symbols, active_chains, open_trades>>

\* one iteration of the for loop of _check_exit_continuation_reentries, up to the
\* point where it awaits trading_engine.process_alert(entry_signal)
check_exit_continuation_reentries(symbol) ==
    /\ pc = "exit"
    /\ symbol \in todo
    /\ IF symbol \notin DOMAIN exit_continuation_pending
       THEN \* KeyError from self.exit_continuation_pending[symbol]: the entry was
            \* removed while an earlier iteration of this pass was suspended
            ExitIterationSet(exit_continuation_pending,
                Eval("exit", symbol, FALSE, 0, NoGate, "not_called", "raised",
                     FALSE, FALSE), "raised", applied)
       ELSE
       LET pending == exit_continuation_pending[symbol]
           direction == pending.direction
       IN
       \/ \* current_price is None
          \E quote \in UnreadQuotes(continuation_target_price(direction, pending.exit_price,
                                                              symbol)) :
          ExitIterationSet(after_no_price(exit_continuation_pending, symbol),
                Eval("exit", symbol, FALSE, quote, NoGate, "not_called", "no_price",
                     FALSE, FALSE), "exit", applied)
       \/ \E current_price \in Prices(continuation_target_price(direction, pending.exit_price,
                                                                symbol)) :
            /\ PriceAvailable
            /\ IF symbol_config_missing(symbol)
               THEN \* KeyError from config["symbol_config"][symbol]
                    ExitIterationSet(exit_continuation_pending,
                          Eval("exit", symbol, TRUE, current_price, NoGate,
                               "not_called", "raised", FALSE, FALSE), "raised", applied)
               ELSE IF ~price_reached(direction, current_price,
                          continuation_target_price(direction, pending.exit_price, symbol))
               THEN ExitIterationSet(after_not_reached(exit_continuation_pending, symbol),
                          Eval("exit", symbol, TRUE, current_price, NoGate,
                               "not_called", "not_reached", FALSE, FALSE), "exit", applied)
               ELSE \E alignment \in Alignments :
                    LET verdict == alignment_verdict(alignment, direction) IN
                    IF verdict # "pass"
                    THEN ExitIterationSet(
                               after_gate_reject(exit_continuation_pending, symbol),
                               Eval("exit", symbol, TRUE, current_price, Gate(alignment),
                                    "not_called", "gate_drop", FALSE, FALSE), "exit",
                               applied)
                    ELSE \* Alert(signal, type='entry', price) handed to process_alert
                         ExitIterationSet(exit_continuation_pending,
                               [Eval("exit", symbol, TRUE, current_price, Gate(alignment),
                                     "alert", "awaiting", FALSE, FALSE)
                                  EXCEPT !.alert = entry_signal(symbol, direction,
                                                                current_price)],
                               "exit_await", applied)

\* trading_engine.process_alert returns or raises; on return the entry is deleted
\* (`del self.exit_continuation_pending[symbol]`, a KeyError if it is gone)
exit_continuation_resume(returns) ==
    /\ pc = "exit_await"
    /\ LET ok == returns /\ cur \in DOMAIN exit_continuation_pending IN
       /\ exit_continuation_pending' =
              IF ok THEN del(exit_continuation_pending, cur) ELSE exit_continuation_pending
       /\ applied' = applied
       /\ last' = [last EXCEPT !.result = IF ok THEN "executed" ELSE "raised"]
       /\ pc' = IF ok THEN "exit" ELSE "raised"
       /\ todo' = IF ok THEN todo ELSE {}
    /\ cur' = None
    /\ registered_in_await' = FALSE
    /\ UNCHANGED <<config, trade_inputs, sizing, sl_pass_reentries, call, profit_vars, monitor_tasks, is_running, sl_hunt_pending, tp_continuation_pending,
                   monitored_symbols, active_chains, open_trades>>

\* _check_exit_continuation_reentries returns, _check_profit_booking_chains starts
exit_continuation_pass_done ==
    /\ pc = "exit"
    /\ todo = {}
    /\ pc' = "pb"
    /\ last' = NoEval
    /\ UNCHANGED <<config, trade_inputs, sizing, sl_pass_reentries, registered_in_await, call, profit_vars, monitor_tasks, is_running, todo, cur, sl_hunt_pending, tp_continuation_pending,
                   exit_continuation_pending, monitored_symbols, active_chains,
                   open_trades, applied>>

\* Profit-booking manager (profit_manager), as the specification describes it.
\* A chain is [current_level, orders], orders : order -> "unplaced" | "open" | "closed".

\* every order of the chain's current level is closed
all_closed(chain) ==
    \A order \in Orders : OrderLevel(order) = chain.current_level => chain.orders[order] = "closed"

\* orders check_profit_targets can return: open member orders of the current level
bookable(chain) ==
    {order \in Orders : OrderLevel(order) = chain.current_level /\ chain.orders[order] = "open"}

\* book_individual_order succeeding: the order is closed at market
book_individual_order(chain, order) == [chain EXCEPT !.orders[order] = "closed"]

\* the chain advanced whatever the state of its orders
check_and_progress_chain_unconditional(chain) ==
    IF chain.current_level < MaxProfitLevel
    THEN [current_level |-> chain.current_level + 1,
          orders |-> [order \in Orders |->
                        IF OrderLevel(order) = chain.current_level + 1 THEN "open"
                        ELSE chain.orders[order]]]
    ELSE chain

\* check_and_progress_chain: the next level is opened once every order of the
\* current level is closed
check_and_progress_chain(chain) ==
    IF all_closed(chain) /\ chain.current_level < MaxProfitLevel
    THEN [current_level |-> chain.current_level + 1,
          orders |-> [order \in Orders |->
                        IF OrderLevel(order) = chain.current_level + 1 THEN "open"
                        ELSE chain.orders[order]]]
    ELSE chain

\* the for loop handing the same order to the booking again
remaining_orders_repeats(orders, order) == orders

\* `for order in orders_to_book`: the orders after the one being booked
remaining_orders(orders, order) == orders \ {order}

\* _check_profit_booking_chains up to its for loop: return if the manager holds no chain
check_profit_booking_chains ==
    /\ pc = "pb"
    /\ IF DOMAIN profit_chains = {}
       THEN pc' = "sleep" /\ pb_todo' = {}
       ELSE pc' = "pb_chains" /\ pb_todo' = DOMAIN profit_chains
    /\ pb_chain' = None
    /\ orders_to_book' = {}
    /\ pb_order' = None
    /\ book_calls' = [o \in Orders |-> 0]
    /\ pb_failed' = {}
    /\ UNCHANGED <<config, trade_inputs, sizing, sl_pass_reentries, registered_in_await, call, monitor_tasks, is_running, todo, cur,
                   sl_hunt_pending, tp_continuation_pending, exit_continuation_pending,
                   monitored_symbols, active_chains, open_trades, applied, last,
                   profit_chains, booked>>

\* an exception of one chain left to the handler of _monitor_loop
chain_exception_propagates == "raised"

\* `except Exception` inside the for loop: the error is logged, the loop goes on
\* with the next chain
chain_exception_handler == "pb_chains"

\* assignment shared by the steps of the profit-booking pass
ProfitStepSet(next_pc, chains, chain_id, orders, order) ==
    /\ pc' = next_pc
    /\ profit_chains' = chains
    /\ pb_chain' = chain_id
    /\ orders_to_book' = orders
    /\ pb_order' = order
    /\ book_calls' = IF order = None THEN book_calls
                     ELSE [book_calls EXCEPT ![order] = @ + 1]
    /\ UNCHANGED <<config, trade_inputs, sizing, sl_pass_reentries, registered_in_await, call, monitor_tasks, is_running, todo, cur,
                   sl_hunt_pending, tp_continuation_pending, exit_continuation_pending,
                   monitored_symbols, active_chains, open_trades, applied, last>>

\* one iteration of `for chain_id, chain in active_chains.items()` up to the first
\* await: validate_chain_state, check_profit_targets, first book_individual_order call
check_profit_booking_chain(chain_id, valid, ready) ==
    /\ pc = "pb_chains"
    /\ chain_id \in pb_todo
    /\ ready \subseteq bookable(profit_chains[chain_id])
    /\ pb_todo' = pb_todo \ {chain_id}
    /\ booked' = booked
    /\ pb_failed' = pb_failed
    /\ IF ~valid \/ ready = {}
       THEN ProfitStepSet("pb_chains", profit_chains, None, {}, None)
       ELSE \E order \in ready :
                ProfitStepSet("pb_book_await", profit_chains, chain_id,
                              remaining_orders(ready, order), order)

\* validate_chain_state or check_profit_targets raises
check_profit_booking_chain_raises(chain_id) ==
    /\ pc = "pb_chains"
    /\ chain_id \in pb_todo
    /\ pb_todo' = pb_todo \ {chain_id}
    /\ booked' = booked
    /\ pb_failed' = pb_failed \cup {chain_id}
    /\ ProfitStepSet(chain_exception_handler, profit_chains, None, {}, None)

\* the awaited book_individual_order returns (success only for an order still open)
\* or raises; then the next order is handed over, or check_and_progress_chain is called
book_individual_order_resume(outcome) ==
    /\ pc = "pb_book_await"
    /\ LET chain == profit_chains[pb_chain]
           success == outcome = "success"
           chains == IF success
                     THEN [profit_chains EXCEPT ![pb_chain] = book_individual_order(@, pb_order)]
                     ELSE profit_chains
       IN
       /\ success => chain.orders[pb_order] = "open"
       /\ booked' = IF success THEN [booked EXCEPT ![pb_order] = @ + 1] ELSE booked
       /\ pb_todo' = pb_todo
       /\ pb_failed' = IF outcome = "raise" THEN pb_failed \cup {pb_chain} ELSE pb_failed
       /\ IF outcome = "raise"
          THEN \* `except Exception` of the for loop: next chain
               ProfitStepSet(chain_exception_handler, chains, None, {}, None)
          ELSE IF orders_to_book = {}
          THEN ProfitStepSet("pb_progress_await", chains, pb_chain, {}, None)
          ELSE \E order \in orders_to_book :
                   ProfitStepSet("pb_book_await", chains, pb_chain,
                                 remaining_orders(orders_to_book, order), order)

\* the awaited check_and_progress_chain returns or raises
check_and_progress_chain_resume(returns) ==
    /\ pc = "pb_progress_await"
    /\ pb_todo' = pb_todo
    /\ booked' = booked
    /\ pb_failed' = IF returns THEN pb_failed ELSE pb_failed \cup {pb_chain}
    /\ ProfitStepSet(IF returns THEN "pb_chains" ELSE chain_exception_handler,
                     IF returns
                     THEN [profit_chains EXCEPT ![pb_chain] = check_and_progress_chain(@)]
                     ELSE profit_chains,
                     None, {}, None)

\* the for loop of _check_profit_booking_chains ends; the cycle's sleep begins
profit_booking_pass_done ==
    /\ pc = "pb_chains"
    /\ pb_todo = {}
    /\ pb_todo' = pb_todo
    /\ booked' = booked
    /\ pb_failed' = pb_failed
    /\ ProfitStepSet("sleep", profit_chains, None, {}, None)

\* an open order is closed outside the loop (stop-loss, take-profit, manual close)
close_order(chain_id, order) ==
    /\ pc \in EnvPoints
    /\ profit_chains[chain_id].orders[order] = "open"
    /\ profit_chains' = [profit_chains EXCEPT ![chain_id].orders[order] = "closed"]
    /\ UNCHANGED <<config, trade_inputs, sizing, sl_pass_reentries, registered_in_await, call, monitor_tasks, is_running, pc, todo, cur,
                   sl_hunt_pending, tp_continuation_pending, exit_continuation_pending,
                   monitored_symbols, active_chains, open_trades, applied, last,
                   pb_todo, pb_chain, orders_to_book, pb_order, booked, book_calls,
                   pb_failed>>

\* the handler leaving the while loop instead of sleeping
monitor_loop_except_breaks ==
    /\ pc = "raised"
    /\ pc' = "done"
    /\ last' = NoEval
    /\ UNCHANGED <<config, trade_inputs, sizing, sl_pass_reentries, registered_in_await, call, profit_vars, monitor_tasks, is_running, todo, cur, sl_hunt_pending,
                   tp_continuation_pending, exit_continuation_pending, monitored_symbols,
                   active_chains, open_trades, applied>>

\* `except Exception` of _monitor_loop: the error is logged and the handler's
\* asyncio.sleep(interval) begins
monitor_loop_except ==
    /\ pc = "raised"
    /\ pc' = "sleep_err"
    /\ last' = NoEval
    /\ UNCHANGED <<config, trade_inputs, sizing, sl_pass_reentries, registered_in_await, call, profit_vars, monitor_tasks, is_running, todo, cur, sl_hunt_pending, tp_continuation_pending,
                   exit_continuation_pending, monitored_symbols, active_chains,
                   open_trades, applied>>

-----------------------------------------------------------------------------
\* Lifecycle controls

\* start() without the is_running test
start_unguarded ==
    /\ pc \in EnvPoints
    /\ is_running' = TRUE
    /\ pc' = "created"
    /\ monitor_tasks' = monitor_tasks + 1
    /\ UNCHANGED <<config, trade_inputs, sizing, sl_pass_reentries, registered_in_await, call, profit_vars, todo, cur, sl_hunt_pending,
                   tp_continuation_pending, exit_continuation_pending, monitored_symbols,
                   active_chains, open_trades, applied, last>>

\* start(): a no-op on a running service, else the flag is set and the task created
start ==
    /\ pc \in EnvPoints
    /\ IF is_running
       THEN UNCHANGED <<is_running, pc, monitor_tasks>>
       ELSE /\ is_running' = TRUE
            /\ pc' = "created"
            /\ monitor_tasks' = monitor_tasks + 1
    /\ UNCHANGED <<config, trade_inputs, sizing, sl_pass_reentries, registered_in_await, call, profit_vars, todo, cur, sl_hunt_pending, tp_continuation_pending,
                   exit_continuation_pending, monitored_symbols, active_chains,
                   open_trades, applied, last>>

\* stop(): clears the flag and cancels the task; CancelledError is raised at the
\* task's suspension point and ends it (`except asyncio.CancelledError: break`)
stop ==
    /\ pc \in EnvPoints
    /\ is_running' = FALSE
    /\ pc' = IF pc = "no_task" THEN "no_task" ELSE "done"
    /\ last' = IF pc = "exit_await"
               THEN [NoEval EXCEPT !.kind = "exit", !.sym = cur, !.result = "cancelled"]
               ELSE last
    /\ todo' = {}
    /\ cur' = None
    /\ registered_in_await' = FALSE
    /\ monitor_tasks' = IF pc \in {"no_task", "done"} THEN monitor_tasks ELSE monitor_tasks - 1
    /\ UNCHANGED <<config, trade_inputs, sizing, sl_pass_reentries, call, profit_vars, sl_hunt_pending, tp_continuation_pending,
                   exit_continuation_pending, monitored_symbols, active_chains,
                   open_trades, applied>>

-----------------------------------------------------------------------------
\* Trigger registry

\* the record register_sl_hunt stores
sl_hunt_entry(trade, logic) ==
    [target_price |-> sl_hunt_target_price(trade.direction, trade.sl, trade.symbol),
     direction |-> trade.direction,
     chain_id |-> trade.chain_id,
     sl_price |-> trade.sl,
     logic |-> logic]

\* the registration keeping the entry the symbol already has
register_sl_hunt_keeps_first(trade, logic) ==
    /\ pc \in EnvPoints
    /\ IF trade.chain_id = None \/ trade.sl = 0 \/ trade.symbol \notin ConfiguredSymbols
       THEN UNCHANGED <<sl_hunt_pending, monitored_symbols, applied>>
       ELSE /\ sl_hunt_pending' =
                  [s \in DOMAIN sl_hunt_pending \cup {trade.symbol} |->
                      IF s \in DOMAIN sl_hunt_pending THEN sl_hunt_pending[s]
                      ELSE sl_hunt_entry(trade, logic)]
            /\ monitored_symbols' = monitored_symbols \cup {trade.symbol}
            /\ applied' = applied \ {<<"sl", trade.symbol>>}
    /\ UNCHANGED <<config, trade_inputs, sizing, sl_pass_reentries, registered_in_await, profit_vars, monitor_tasks, is_running, pc, todo,
                   cur, tp_continuation_pending, exit_continuation_pending, active_chains,
                   open_trades, last>>

\* the symbol marked as monitored before the symbol_config lookup
register_sl_hunt_marks_first(trade, logic) ==
    /\ pc \in EnvPoints
    /\ IF trade.chain_id = None \/ trade.sl = 0
       THEN UNCHANGED <<sl_hunt_pending, monitored_symbols, applied>>
       ELSE /\ monitored_symbols' = monitored_symbols \cup {trade.symbol}
            /\ IF trade.symbol \notin ConfiguredSymbols
               THEN UNCHANGED <<sl_hunt_pending, applied>>
               ELSE /\ sl_hunt_pending' =
                          [s \in DOMAIN sl_hunt_pending \cup {trade.symbol} |->
                              IF s = trade.symbol THEN sl_hunt_entry(trade, logic)
                              ELSE sl_hunt_pending[s]]
                    /\ applied' = applied \ {<<"sl", trade.symbol>>}
    /\ UNCHANGED <<config, trade_inputs, sizing, sl_pass_reentries, registered_in_await, profit_vars, monitor_tasks, is_running, pc, todo,
                   cur, tp_continuation_pending, exit_continuation_pending, active_chains,
                   open_trades, last>>

register_sl_hunt(trade, logic) ==
    /\ pc \in EnvPoints
    /\ IF trade.chain_id = None \/ trade.sl = 0 \/ trade.symbol \notin ConfiguredSymbols
       THEN UNCHANGED <<sl_hunt_pending, monitored_symbols, applied>>
       ELSE /\ sl_hunt_pending' =
                  [s \in DOMAIN sl_hunt_pending \cup {trade.symbol} |->
                      IF s = trade.symbol
                      THEN [target_price |-> sl_hunt_target_price(trade.direction, trade.sl,
                                                                  trade.symbol),
                            direction |-> trade.direction,
                            chain_id |-> trade.chain_id,
                            sl_price |-> trade.sl,
                            logic |-> logic]
                      ELSE sl_hunt_pending[s]]
            /\ monitored_symbols' = monitored_symbols \cup {trade.symbol}
            /\ applied' = applied \ {<<"sl", trade.symbol>>}
    /\ UNCHANGED <<config, trade_inputs, sizing, sl_pass_reentries, registered_in_await, profit_vars, monitor_tasks, is_running, pc, todo, cur, tp_continuation_pending,
                   exit_continuation_pending, active_chains, open_trades, last>>

register_tp_continuation(trade, tp_price, logic) ==
    /\ pc \in EnvPoints
    /\ IF trade.chain_id = None \/ tp_price = 0
       THEN UNCHANGED <<tp_continuation_pending, monitored_symbols, applied>>
       ELSE /\ tp_continuation_pending' =
                  [s \in DOMAIN tp_continuation_pending \cup {trade.symbol} |->
                      IF s = trade.symbol
                      THEN [tp_price |-> tp_price,
                            direction |-> trade.direction,
                            chain_id |-> trade.chain_id,
                            logic |-> logic]
                      ELSE tp_continuation_pending[s]]
            /\ monitored_symbols' = monitored_symbols \cup {trade.symbol}
            /\ applied' = applied \ {<<"tp", trade.symbol>>}
    /\ UNCHANGED <<config, trade_inputs, sizing, sl_pass_reentries, registered_in_await, profit_vars, monitor_tasks, is_running, pc, todo, cur, sl_hunt_pending,
                   exit_continuation_pending, active_chains, open_trades, last>>

\* the cancellation emptying the whole map
stop_tp_continuation_clears(symbol) ==
    /\ pc \in EnvPoints
    /\ tp_continuation_pending' = << >>
    /\ applied' = applied
    /\ UNCHANGED <<config, trade_inputs, sizing, sl_pass_reentries, registered_in_await, profit_vars, monitor_tasks, is_running, pc, todo,
                   cur, sl_hunt_pending, exit_continuation_pending, monitored_symbols,
                   active_chains, open_trades, last>>

stop_tp_continuation(symbol) ==
    /\ pc \in EnvPoints
    /\ IF symbol \in DOMAIN tp_continuation_pending
       THEN /\ tp_continuation_pending' = del(tp_continuation_pending, symbol)
            /\ applied' = applied \ {<<"tp", symbol>>}
       ELSE UNCHANGED <<tp_continuation_pending, applied>>
    /\ UNCHANGED <<config, trade_inputs, sizing, sl_pass_reentries, registered_in_await, profit_vars, monitor_tasks, is_running, pc, todo, cur, sl_hunt_pending,
                   exit_continuation_pending, monitored_symbols, active_chains,
                   open_trades, last>>

register_exit_continuation(trade, exit_price, logic) ==
    /\ pc \in EnvPoints
    /\ IF exit_price = 0
       THEN UNCHANGED <<exit_continuation_pending, monitored_symbols, applied,
                        registered_in_await>>
       ELSE /\ exit_continuation_pending' =
                  [s \in DOMAIN exit_continuation_pending \cup {trade.symbol} |->
                      IF s = trade.symbol
                      THEN [exit_price |-> exit_price,
                            direction |-> trade.direction,
                            logic |-> logic]
                      ELSE exit_continuation_pending[s]]
            /\ monitored_symbols' = monitored_symbols \cup {trade.symbol}
            /\ applied' = applied
            /\ registered_in_await' =
                  (registered_in_await \/ (pc = "exit_await" /\ trade.symbol = cur))
    /\ UNCHANGED <<config, trade_inputs, sizing, sl_pass_reentries, profit_vars, monitor_tasks, is_running, pc, todo, cur, sl_hunt_pending,
                   tp_continuation_pending, active_chains, open_trades, last>>

stop_exit_continuation(symbol) ==
    /\ pc \in EnvPoints
    /\ IF symbol \in DOMAIN exit_continuation_pending
       THEN /\ exit_continuation_pending' = del(exit_continuation_pending, symbol)
            /\ applied' = applied
       ELSE UNCHANGED <<exit_continuation_pending, applied>>
    /\ registered_in_await' = (registered_in_await /\ symbol # cur)
    /\ UNCHANGED <<config, trade_inputs, sizing, sl_pass_reentries, profit_vars, monitor_tasks, is_running, pc, todo, cur, sl_hunt_pending,
                   tp_continuation_pending, monitored_symbols, active_chains,
                   open_trades, last>>

-----------------------------------------------------------------------------
LoopStep ==
    \/ CycleStart
    \/ \E symbol \in Symbols : check_sl_hunt_reentries(symbol)
    \/ sl_hunt_pass_done
    \/ \E symbol \in Symbols : check_tp_continuation_reentries(symbol)
    \/ tp_continuation_pass_done
    \/ \E symbol \in Symbols : check_exit_continuation_reentries(symbol)
    \/ \E returns \in BOOLEAN : exit_continuation_resume(returns)
    \/ exit_continuation_pass_done
    \/ check_profit_booking_chains
    \/ monitor_loop_except

\* The service with re-entry monitoring and no profit-booking chain.  The history
\* variable call is kept by RegistrySpec only.
Next ==
    \/ LoopStep
    \/ start
    \/ stop
    \/ \E trade \in trade_inputs, logic \in Logics :
            register_sl_hunt(trade, logic) /\ UNCHANGED call
    \/ \E trade \in trade_inputs, tp_price \in RefPrices, logic \in Logics :
            register_tp_continuation(trade, tp_price, logic) /\ UNCHANGED call
    \/ \E symbol \in Symbols : stop_tp_continuation(symbol) /\ UNCHANGED call
    \/ \E trade \in trade_inputs, exit_price \in RefPrices, logic \in Logics :
            register_exit_continuation(trade, exit_price, logic) /\ UNCHANGED call
    \/ \E symbol \in Symbols : stop_exit_continuation(symbol) /\ UNCHANGED call

Spec == Init /\ [][Next]_vars

\* The event loop runs the task whenever it is runnable: a sleep ends after the
\* interval, an exception handler runs, an awaited process_alert call returns or raises.
FairSpec == Spec /\ WF_vars(LoopStep)

-----------------------------------------------------------------------------
\* The service whose configuration is changed while it runs: config.update(key, value)
\* of the shared Config object, called between two steps of the loop task.

ConfigKeys == {"simulate_orders", "sl_hunt_reentry_enabled", "tp_reentry_enabled",
               "exit_continuation_enabled"}

config_update(key, value) ==
    /\ pc \in EnvPoints
    /\ config[key] # value
    /\ config' = [config EXCEPT ![key] = value]
    /\ UNCHANGED <<trade_inputs, sizing, sl_pass_reentries, registered_in_await, call,
                   profit_vars, monitor_tasks, is_running, pc, todo, cur, sl_hunt_pending,
                   tp_continuation_pending, exit_continuation_pending, monitored_symbols,
                   active_chains, open_trades, applied, last>>

\* one trade with a chain and a stop-loss
ConfigTrades == {t \in MainTrades : t.symbol = "XAUUSD" /\ t.chain_id # None /\ t.sl # 0}

ConfigInit ==
    /\ ServiceInit
    /\ trade_inputs = ConfigTrades
    /\ profit_chains = << >>

ConfigNext ==
    \/ Next
    \/ \E key \in ConfigKeys, value \in BOOLEAN : config_update(key, value)

ConfigSpec == ConfigInit /\ [][ConfigNext]_vars

-----------------------------------------------------------------------------
\* The service handed trades of a symbol that config["symbol_config"] does not have.

\* a buy on the configured symbol and a buy on the unconfigured one, each with a chain
UnconfiguredTrades == {t \in RegistryTrades : t.direction = "buy" /\ t.chain_id # None /\ t.sl = 10}

UnconfiguredInit ==
    /\ ServiceInit
    /\ trade_inputs = UnconfiguredTrades
    /\ profit_chains = << >>

UnconfiguredLoopStep ==
    \/ CycleStart
    \/ \E symbol \in RegistrySymbols : check_sl_hunt_reentries(symbol)
    \/ sl_hunt_pass_done
    \/ \E symbol \in RegistrySymbols : check_tp_continuation_reentries(symbol)
    \/ tp_continuation_pass_done
    \/ \E symbol \in RegistrySymbols : check_exit_continuation_reentries(symbol)
    \/ \E returns \in BOOLEAN : exit_continuation_resume(returns)
    \/ exit_continuation_pass_done
    \/ check_profit_booking_chains
    \/ monitor_loop_except

UnconfiguredNext ==
    \/ UnconfiguredLoopStep
    \/ start
    \/ stop
    \/ \E trade \in trade_inputs, logic \in Logics :
            register_sl_hunt(trade, logic) /\ UNCHANGED call
    \/ \E trade \in trade_inputs, tp_price \in RefPrices, logic \in Logics :
            register_tp_continuation(trade, tp_price, logic) /\ UNCHANGED call
    \/ \E symbol \in RegistrySymbols : stop_tp_continuation(symbol) /\ UNCHANGED call
    \/ \E trade \in trade_inputs, exit_price \in RefPrices, logic \in Logics :
            register_exit_continuation(trade, exit_price, logic) /\ UNCHANGED call
    \/ \E symbol \in RegistrySymbols : stop_exit_continuation(symbol) /\ UNCHANGED call

UnconfiguredSpec == UnconfiguredInit /\ [][UnconfiguredNext]_vars

-----------------------------------------------------------------------------
\* The registry interface called on a service whose loop task is not running, each
\* call recorded in the history variable call.

\* how a register_sl_hunt call ends: rejected by a test, stopped by the KeyError of
\* the symbol_config lookup (caught), or registered
register_sl_hunt_outcome(trade) ==
    IF trade.chain_id = None \/ trade.sl = 0 THEN "rejected"
    ELSE IF trade.symbol \notin ConfiguredSymbols THEN "error"
    ELSE IF trade.symbol \in DOMAIN sl_hunt_pending THEN "replaced"
    ELSE "registered"

register_tp_continuation_outcome(trade, tp_price) ==
    IF trade.chain_id = None \/ tp_price = 0 THEN "rejected"
    ELSE IF trade.symbol \in DOMAIN tp_continuation_pending THEN "replaced"
    ELSE "registered"

register_exit_continuation_outcome(trade, exit_price) ==
    IF exit_price = 0 THEN "rejected"
    ELSE IF trade.symbol \in DOMAIN exit_continuation_pending THEN "replaced"
    ELSE "registered"

stop_continuation_outcome(pending, symbol) ==
    IF symbol \in DOMAIN pending THEN "removed" ELSE "absent"

Called(op, symbol, outcome) ==
    call' = [op |-> op, symbol |-> symbol, outcome |-> outcome, status |-> NoStatus]

\* get_service_status(): builds the snapshot and returns it
get_service_status ==
    /\ pc \in EnvPoints
    /\ call' = [op |-> "get_service_status", symbol |-> "none", outcome |-> "returned",
                status |-> Status(is_running, pc \notin {"no_task", "done"},
                                  monitored_symbols, sl_hunt_pending,
                                  tp_continuation_pending, exit_continuation_pending)]
    /\ UNCHANGED <<config, trade_inputs, sizing, sl_pass_reentries, registered_in_await, profit_vars, monitor_tasks, is_running, pc, todo,
                   cur, sl_hunt_pending, tp_continuation_pending,
                   exit_continuation_pending, monitored_symbols, active_chains,
                   open_trades, applied, last>>

RegistryInit ==
    /\ ServiceInit
    /\ trade_inputs = RegistryTrades
    /\ profit_chains = << >>

RegistryNext ==
    \/ \E trade \in trade_inputs, logic \in Logics :
            /\ register_sl_hunt(trade, logic)
            /\ Called("register_sl_hunt", trade.symbol, register_sl_hunt_outcome(trade))
    \/ \E trade \in ContinuationTrades(trade_inputs), tp_price \in RegistryPrices,
          logic \in Logics :
            /\ register_tp_continuation(trade, tp_price, logic)
            /\ Called("register_tp_continuation", trade.symbol,
                      register_tp_continuation_outcome(trade, tp_price))
    \/ \E symbol \in RegistrySymbols :
            /\ stop_tp_continuation(symbol)
            /\ Called("stop_tp_continuation", symbol,
                      stop_continuation_outcome(tp_continuation_pending, symbol))
    \/ \E trade \in ContinuationTrades(trade_inputs), exit_price \in RegistryPrices,
          logic \in Logics :
            /\ register_exit_continuation(trade, exit_price, logic)
            /\ Called("register_exit_continuation", trade.symbol,
                      register_exit_continuation_outcome(trade, exit_price))
    \/ \E symbol \in RegistrySymbols :
            /\ stop_exit_continuation(symbol)
            /\ Called("stop_exit_continuation", symbol,
                      stop_continuation_outcome(exit_continuation_pending, symbol))
    \/ get_service_status

RegistrySpec == RegistryInit /\ [][RegistryNext]_vars

-----------------------------------------------------------------------------
\* The service with a profit-booking chain in the manager and an empty registry.

ProfitInit ==
    /\ ServiceInit
    /\ trade_inputs = {}
    /\ profit_chains = [c \in ProfitChainIds |->
                          [current_level |-> 0,
                           orders |-> [order \in Orders |->
                                         IF OrderLevel(order) = 0 THEN "open"
                                         ELSE "unplaced"]]]

ProfitLoopStep ==
    \/ CycleStart
    \/ sl_hunt_pass_done
    \/ tp_continuation_pass_done
    \/ exit_continuation_pass_done
    \/ check_profit_booking_chains
    \/ \E chain_id \in ProfitChainIds, valid \in BOOLEAN, ready \in SUBSET Orders :
            check_profit_booking_chain(chain_id, valid, ready)
    \/ \E outcome \in BookOutcomes : book_individual_order_resume(outcome)
    \/ \E returns \in BOOLEAN : check_and_progress_chain_resume(returns)
    \/ profit_booking_pass_done

ProfitNext ==
    \/ ProfitLoopStep
    \/ start
    \/ stop
    \/ \E chain_id \in ProfitChainIds, order \in Orders : close_order(chain_id, order)

ProfitSpec == ProfitInit /\ [][ProfitNext]_vars

\* The event loop runs the task whenever it is runnable, as in FairSpec.
FairProfitSpec == ProfitSpec /\ WF_vars(ProfitLoopStep)

\* The service with two profit-booking chains in the manager: PB1 at level 0 with its
\* two orders open, PB2 at level 1 with its level-0 orders closed and one order open.
ChainPair == {"PB1", "PB2"}

ChainPairInit ==
    /\ ServiceInit
    /\ trade_inputs = {}
    /\ profit_chains = [c \in ChainPair |->
                          IF c = "PB1"
                          THEN [current_level |-> 0,
                                orders |-> [order \in Orders |->
                                              IF OrderLevel(order) = 0 THEN "open"
                                              ELSE "unplaced"]]
                          ELSE [current_level |-> 1,
                                orders |-> [order \in Orders |->
                                              IF OrderLevel(order) = 1 THEN "open"
                                              ELSE "closed"]]]

ChainPairLoopStep ==
    \/ CycleStart
    \/ sl_hunt_pass_done
    \/ tp_continuation_pass_done
    \/ exit_continuation_pass_done
    \/ check_profit_booking_chains
    \/ \E chain_id \in ChainPair, valid \in BOOLEAN, ready \in SUBSET Orders :
            check_profit_booking_chain(chain_id, valid, ready)
    \/ \E chain_id \in ChainPair : check_profit_booking_chain_raises(chain_id)
    \/ \E outcome \in BookOutcomes : book_individual_order_resume(outcome)
    \/ \E returns \in BOOLEAN : check_and_progress_chain_resume(returns)
    \/ profit_booking_pass_done

ChainPairNext ==
    \/ ChainPairLoopStep
    \/ start
    \/ stop
    \/ \E chain_id \in ChainPair, order \in Orders : close_order(chain_id, order)

ChainPairSpec == ChainPairInit /\ [][ChainPairNext]_vars

-----------------------------------------------------------------------------
\* The stop-loss arithmetic on its own: each action is one computation on inputs of
\* the bounded sets, recorded with its result.

service_vars == <<config, is_running, pc, todo, cur, sl_hunt_pending, tp_continuation_pending,
                  exit_continuation_pending, monitored_symbols, active_chains, open_trades,
                  trade_inputs, applied, last, monitor_tasks, call, profit_vars,
                  registered_in_await, sl_pass_reentries>>

SizerInit ==
    /\ ServiceInit
    /\ trade_inputs = {}
    /\ profit_chains = << >>

\* lines 516-517 / 592-593 of the executors
compute_sl_adjustment(reduction_per_level, current_level) ==
    /\ sizing' = [op |-> "sl_adjustment",
                  args |-> [reduction_per_level |-> reduction_per_level,
                            current_level |-> current_level],
                  result |-> sl_adjustment(reduction_per_level, current_level)]
    /\ UNCHANGED service_vars

call_calculate_sl_price(entry_price, direction, symbol, lot_size) ==
    /\ sizing' = [op |-> "calculate_sl_price",
                  args |-> [entry_price |-> entry_price, direction |-> direction,
                            symbol |-> symbol, lot_size |-> lot_size],
                  result |-> calculate_sl_price(entry_price, direction, symbol, lot_size)]
    /\ UNCHANGED service_vars

call_get_pip_value(symbol, lot_size) ==
    /\ sizing' = [op |-> "get_pip_value",
                  args |-> [symbol |-> symbol, lot_size |-> lot_size],
                  result |-> get_pip_value(symbol, lot_size)]
    /\ UNCHANGED service_vars

\* the stop-loss prices handed to the validator: the sizer's own answer for the same
\* order, and the entry price itself (a stop-loss that loses nothing)
StopLossInputs(entry_price, direction, symbol, lot_size) ==
    LET x == calculate_sl_price(entry_price, direction, symbol, lot_size) IN
    (IF x.outcome = "returned" THEN {x.sl_price} ELSE {}) \cup {entry_price}

call_validate_sl_loss(entry_price, sl_price, direction, symbol, lot_size) ==
    /\ sizing' = [op |-> "validate_sl_loss",
                  args |-> [entry_price |-> entry_price, sl_price |-> sl_price,
                            direction |-> direction, symbol |-> symbol,
                            lot_size |-> lot_size],
                  result |-> validate_sl_loss(entry_price, sl_price, direction, symbol,
                                              lot_size)]
    /\ UNCHANGED service_vars

SizerNext ==
    \/ \E reduction_per_level \in Reductions, current_level \in 0..MaxLevel :
            compute_sl_adjustment(reduction_per_level, current_level)
    \/ \E entry_price \in EntryPrices, direction \in Directions, symbol \in SizerSymbols,
          lot_size \in LotSizes :
            call_calculate_sl_price(entry_price, direction, symbol, lot_size)
    \/ \E symbol \in SizerSymbols, lot_size \in LotSizes : call_get_pip_value(symbol, lot_size)
    \/ \E entry_price \in EntryPrices, direction \in Directions, symbol \in SizerSymbols,
          lot_size \in LotSizes :
            \E sl_price \in StopLossInputs(entry_price, direction, symbol, lot_size) :
                call_validate_sl_loss(entry_price, sl_price, direction, symbol, lot_size)

SizerSpec == SizerInit /\ [][SizerNext]_vars

-----------------------------------------------------------------------------
\* Vocabulary of the properties

ReentryKinds == {"sl", "tp"}
Passes == {"sl", "tp", "exit"}

Pending(kind) == IF kind = "sl" THEN sl_hunt_pending
                 ELSE IF kind = "tp" THEN tp_continuation_pending
                 ELSE exit_continuation_pending

\* the target a pending trigger is compared with
TargetOf(kind, symbol) ==
    IF kind = "sl" THEN sl_hunt_pending[symbol].target_price
    ELSE IF kind = "tp"
    THEN continuation_target_price(tp_continuation_pending[symbol].direction,
                                   tp_continuation_pending[symbol].tp_price, symbol)
    ELSE continuation_target_price(exit_continuation_pending[symbol].direction,
                                   exit_continuation_pending[symbol].exit_price, symbol)

\* this step evaluates the pending trigger (kind, last'.sym): one iteration of the
\* kind's pass, or the rest of an exit-continuation iteration after its await
Evaluates(kind) ==
    \/ pc = kind /\ last' # NoEval
    \/ kind = "exit" /\ pc = "exit_await" /\ last'.result \in {"executed", "raised"}

\* the alignment result lets a trigger of this direction through: aligned, and bullish
\* for a buy, bearish for a sell
GatePassed(gate, direction) ==
    /\ gate.called
    /\ gate.aligned
    /\ gate.direction = (IF direction = "buy" THEN "BULLISH" ELSE "BEARISH")

GateRejected(gate, direction) ==
    /\ gate.called
    /\ \/ ~gate.aligned
       \/ gate.direction # (IF direction = "buy" THEN "BULLISH" ELSE "BEARISH")

\* this step is taken by the loop task, not by a caller of the service
LoopTaskStep == pc \notin EnvPoints \/ (pc' # pc /\ pc' \notin {"created", "done", "no_task"})

\* this step appended a re-entry trade and advanced its chain
ReentryMade == Len(open_trades') > Len(open_trades)

-----------------------------------------------------------------------------
\* C1: one registration of an SL-hunt or TP-continuation trigger produces at most one
\* re-entry (one chain advance, one trade appended), whatever the outcome of the
\* execution: a registration that has already produced a re-entry never produces another.
C1_AtMostOneReentryPerRegistration ==
    [][ \A kind \in ReentryKinds :
            (Evaluates(kind) /\ <<kind, last'.sym>> \in applied) => ~ReentryMade ]_vars

\* C2: after an evaluation in which the trigger fired (the re-entry or entry was made, or
\* the alignment gate rejected it) the symbol has no entry in that kind's pending map.
C2_FiredTriggerIsAbsent ==
    [][ \A kind \in Passes :
            (/\ Evaluates(kind)
             /\ \/ last'.result \in {"gate_drop", "executed"}
                \/ ReentryMade)
            => last'.sym \notin DOMAIN Pending(kind)' ]_vars

\* C3: every chain keeps 0 <= current_level <= max_level and every re-entry trade has
\* chain_level <= max_level; a fired SL-hunt or TP-continuation trigger whose chain is at
\* max_level places no order, appends no trade and leaves the chain unchanged.
LevelsWithinMax ==
    /\ \A c \in DOMAIN active_chains :
          /\ 0 <= active_chains[c].current_level
          /\ active_chains[c].current_level <= active_chains[c].max_level
    /\ \A i \in 1..Len(open_trades) :
          /\ open_trades[i].chain_id \in DOMAIN active_chains
          /\ open_trades[i].chain_level <= active_chains[open_trades[i].chain_id].max_level

ExhaustedChainIsNoOp ==
    \A kind \in ReentryKinds :
        (/\ Evaluates(kind)
         /\ GatePassed(last'.gate, Pending(kind)[last'.sym].direction)
         /\ Pending(kind)[last'.sym].chain_id \in DOMAIN active_chains
         /\ active_chains[Pending(kind)[last'.sym].chain_id].current_level
              = active_chains[Pending(kind)[last'.sym].chain_id].max_level)
        => /\ last'.order = "not_called"
           /\ open_trades' = open_trades
           /\ active_chains' = active_chains

C3_LevelNeverExceedsMax == []LevelsWithinMax /\ [][ExhaustedChainIsNoOp]_vars

\* a trigger fired on a chain that is at max_level and was dropped
C3_Witness ==
    /\ last.kind \in ReentryKinds
    /\ last.sym = "XAUUSD"
    /\ last.result = "chain_drop"
    /\ active_chains["chain_XAUUSD"].current_level = MaxLevel
    /\ Len(open_trades) = MaxLevel

\* C4: for each kind and every pending trigger whose price is available, the condition
\* is reached iff price >= target for a buy and iff price <= target for a sell (equality
\* counts); a trigger whose condition is not reached stays in the registry unchanged and
\* neither the alignment gate nor order placement is invoked for it.
ComparisonIsDirectional ==
    \A kind \in Passes :
        (/\ pc = kind
         /\ last' # NoEval
         /\ last'.price_ok
         /\ last'.sym \in DOMAIN Pending(kind)
         /\ last'.sym \in ConfiguredSymbols)
        => LET direction == Pending(kind)[last'.sym].direction
               target == TargetOf(kind, last'.sym)
               reached == \/ direction = "buy" /\ last'.price >= target
                          \/ direction = "sell" /\ last'.price <= target
           IN  /\ last'.gate.called <=> reached
               /\ ~reached =>
                     /\ UNCHANGED <<sl_hunt_pending, tp_continuation_pending,
                                    exit_continuation_pending, active_chains, open_trades>>
                     /\ last'.order = "not_called"

C4_ReachedIffDirectionalComparison == [][ComparisonIsDirectional]_vars

\* a buy exit-continuation trigger fired at a price equal to its target
C4_Witness ==
    /\ pc = "exit_await"
    /\ cur \in DOMAIN exit_continuation_pending
    /\ exit_continuation_pending[cur].direction = "buy"
    /\ last.gate.called
    /\ last.price = TargetOf("exit", cur)

\* C5: a trigger whose current price is unavailable is retained unchanged, neither the
\* gate nor order placement is invoked for it, and the pass goes on with the remaining
\* pending triggers.
UnavailablePriceRetains ==
    \A kind \in Passes :
        (pc = kind /\ last' # NoEval /\ last'.sym \in DOMAIN Pending(kind) /\ ~last'.price_ok)
        => /\ UNCHANGED <<sl_hunt_pending, tp_continuation_pending,
                          exit_continuation_pending, active_chains, open_trades>>
           /\ ~last'.gate.called
           /\ last'.order = "not_called"
           /\ pc' = kind
           /\ todo' = todo \ {last'.sym}

C5_UnavailablePriceRetainsTrigger == [][UnavailablePriceRetains]_vars

\* an SL-hunt trigger was skipped for want of a price and another is still to be evaluated
C5_Witness ==
    /\ pc = "sl"
    /\ last.kind = "sl"
    /\ ~last.price_ok
    /\ last.sym \in DOMAIN sl_hunt_pending
    /\ todo # {}

\* C6: a reached trigger that the gate reports not aligned, or aligned in a direction
\* other than the trigger's (buy -> bullish, sell -> bearish), is dropped in that cycle
\* with no order, no trade and no chain change; the gate is consulted at most once per
\* trigger per cycle and the loop never registers a trigger.
GateRejectionDrops ==
    \A kind \in Passes :
        (/\ pc = kind
         /\ last' # NoEval
         /\ last'.sym \in DOMAIN Pending(kind)
         /\ GateRejected(last'.gate, Pending(kind)[last'.sym].direction))
        => /\ last'.sym \notin DOMAIN Pending(kind)'
           /\ last'.order = "not_called"
           /\ open_trades' = open_trades
           /\ active_chains' = active_chains

\* within a pass the snapshot only shrinks, by the trigger just evaluated
GateOncePerCycle ==
    \A kind \in Passes :
        (pc = kind /\ pc' = kind)
        => /\ last'.sym \in todo
           /\ todo' = todo \ {last'.sym}

LoopNeverRegisters ==
    LoopTaskStep => \A kind \in Passes : DOMAIN Pending(kind)' \subseteq DOMAIN Pending(kind)

C6_GateRejectionDropsTrigger ==
    [][GateRejectionDrops /\ GateOncePerCycle /\ LoopNeverRegisters]_vars

\* a sell SL-hunt trigger met an aligned but bullish trend and was dropped
C6_Witness ==
    /\ last.kind = "sl"
    /\ last.gate.called
    /\ last.gate.aligned
    /\ last.gate.direction = "BULLISH"
    /\ last.sym = "EURUSD"
    /\ last.sym \notin DOMAIN sl_hunt_pending

\* C7: an SL-hunt or TP-continuation trigger that fires and passes the gate while its
\* chain is unknown to the chain store or at max level is dropped silently: no order, no
\* trade, no chain mutation, no notification, no audit row, and the trigger is removed.
BlockedChainDropsSilently ==
    \A kind \in ReentryKinds :
        (/\ pc = kind
         /\ last' # NoEval
         /\ GatePassed(last'.gate, Pending(kind)[last'.sym].direction)
         /\ \/ Pending(kind)[last'.sym].chain_id \notin DOMAIN active_chains
            \/ active_chains[Pending(kind)[last'.sym].chain_id].current_level
                 >= active_chains[Pending(kind)[last'.sym].chain_id].max_level)
        => /\ last'.order = "not_called"
           /\ open_trades' = open_trades
           /\ active_chains' = active_chains
           /\ ~last'.audit
           /\ ~last'.notify
           /\ last'.sym \notin DOMAIN Pending(kind)'
           /\ pc' = kind

C7_BlockedChainDropsSilently == [][BlockedChainDropsSilently]_vars

\* a TP-continuation trigger whose chain is not in the chain store fired and was dropped
C7_Witness ==
    /\ last.kind = "tp"
    /\ last.sym = "EURUSD"
    /\ last.result = "chain_drop"
    /\ ChainOf(last.sym) \notin DOMAIN active_chains
    /\ last.sym \notin DOMAIN tp_continuation_pending

\* C8: a broker failure while placing a re-entry order (failure value or exception)
\* leaves the pending trigger in place for the next cycle and does not abort the cycle.
C8_BrokerFailureRetainsTrigger ==
    [][ \A kind \in ReentryKinds :
            (pc = kind /\ last' # NoEval /\ last'.order \in {"failure", "raise"})
            => /\ Pending(kind)' = Pending(kind)
               /\ pc' = kind ]_vars

\* C9: an exception raised inside a cycle is caught at the cycle boundary and, unless
\* the service is stopped, a further cycle is eventually started.
C9_LoopSurvivesFailedCycle == (pc = "raised") ~> (pc = "sl" \/ ~is_running)

\* the loop sleeps in its exception handler after a failed cycle, still running
C9_Witness == pc = "sleep_err" /\ is_running

\* C10: a stop() issued while a cycle is in flight lets the cycle finish: a trigger fire
\* that has begun (entry alert submitted) completes its removal before the task exits.
C10_StopLetsCycleFinish ==
    (pc = "done" /\ last.result = "cancelled")
    => last.sym \notin DOMAIN exit_continuation_pending

-----------------------------------------------------------------------------
\* Vocabulary of the registry properties

RegisterOps == {"register_sl_hunt", "register_tp_continuation", "register_exit_continuation"}

\* positions of the loop task inside a cycle
CyclePositions == {"sl", "tp", "exit", "exit_await", "pb", "pb_chains", "pb_book_await",
                   "pb_progress_await", "raised"}

RegistryUnchanged ==
    UNCHANGED <<sl_hunt_pending, tp_continuation_pending, exit_continuation_pending,
                monitored_symbols>>

\* C11: at most one loop task exists and at most one cycle is in progress: a cycle is
\* entered only by a task that was just created or whose sleep has ended, the sleep
\* is left only into a new cycle or by a stop, under every interleaving of start()
\* and stop(); a start() on a running service creates no second task.
OneLoopTask ==
    /\ monitor_tasks \in {0, 1}
    /\ (pc \notin {"no_task", "done"}) <=> (monitor_tasks = 1)
    /\ is_running => monitor_tasks = 1

CycleAfterSleep ==
    /\ (pc' \in CyclePositions /\ pc \notin CyclePositions)
       => (pc \in {"created", "sleep", "sleep_err"} /\ pc' = "sl" /\ is_running
           /\ monitor_tasks = 1)
    /\ (pc \in {"sleep", "sleep_err"} /\ pc' # pc) => pc' \in {"sl", "done"}
    /\ (is_running /\ is_running') => monitor_tasks' = monitor_tasks

OneTriggerPerSymbol ==
    \A kind \in Passes :
        /\ DOMAIN Pending(kind) \subseteq Symbols \cup RegistrySymbols
        /\ \A s \in DOMAIN Pending(kind) : Pending(kind)[s].direction \in Directions

RegistrationReplaces ==
    /\ call'.op = "register_sl_hunt" =>
        \A trade \in trade_inputs, logic \in Logics :
          (/\ trade.symbol = call'.symbol
           /\ trade.chain_id # None /\ trade.sl # 0 /\ trade.symbol \in ConfiguredSymbols
           /\ register_sl_hunt(trade, logic))
          => /\ DOMAIN sl_hunt_pending' = DOMAIN sl_hunt_pending \cup {trade.symbol}
             /\ sl_hunt_pending'[trade.symbol] =
                    [target_price |-> IF trade.direction = "buy"
                                      THEN trade.sl + OffsetPips ELSE trade.sl - OffsetPips,
                     direction |-> trade.direction, chain_id |-> trade.chain_id,
                     sl_price |-> trade.sl, logic |-> logic]
             /\ \A s \in DOMAIN sl_hunt_pending \ {trade.symbol} :
                    sl_hunt_pending'[s] = sl_hunt_pending[s]
             /\ UNCHANGED <<tp_continuation_pending, exit_continuation_pending>>
    /\ call'.op = "register_tp_continuation" =>
        \A trade \in ContinuationTrades(trade_inputs), tp_price \in RegistryPrices, logic \in Logics :
          (/\ trade.symbol = call'.symbol
           /\ trade.chain_id # None /\ tp_price # 0
           /\ register_tp_continuation(trade, tp_price, logic))
          => /\ DOMAIN tp_continuation_pending' =
                    DOMAIN tp_continuation_pending \cup {trade.symbol}
             /\ tp_continuation_pending'[trade.symbol] =
                    [tp_price |-> tp_price, direction |-> trade.direction,
                     chain_id |-> trade.chain_id, logic |-> logic]
             /\ \A s \in DOMAIN tp_continuation_pending \ {trade.symbol} :
                    tp_continuation_pending'[s] = tp_continuation_pending[s]
             /\ UNCHANGED <<sl_hunt_pending, exit_continuation_pending>>
    /\ call'.op = "register_exit_continuation" =>
        \A trade \in ContinuationTrades(trade_inputs), exit_price \in RegistryPrices, logic \in Logics :
          (/\ trade.symbol = call'.symbol
           /\ exit_price # 0
           /\ register_exit_continuation(trade, exit_price, logic))
          => /\ DOMAIN exit_continuation_pending' =
                    DOMAIN exit_continuation_pending \cup {trade.symbol}
             /\ exit_continuation_pending'[trade.symbol] =
                    [exit_price |-> exit_price, direction |-> trade.direction,
                     logic |-> logic]
             /\ \A s \in DOMAIN exit_continuation_pending \ {trade.symbol} :
                    exit_continuation_pending'[s] = exit_continuation_pending[s]
             /\ UNCHANGED <<sl_hunt_pending, tp_continuation_pending>>

C12_RegistrationReplacesEntry == []OneTriggerPerSymbol /\ [][RegistrationReplaces]_vars

\* a buy SL-hunt trigger of XAUUSD was replaced by a sell registration
C12_Witness ==
    /\ call.op = "register_sl_hunt"
    /\ call.outcome = "replaced"
    /\ sl_hunt_pending["XAUUSD"].direction = "sell"
    /\ sl_hunt_pending["XAUUSD"].target_price = 10 - OffsetPips

\* C13: register_sl_hunt rejects every trade without a chain id or with a stop-loss
\* that is zero or negative, leaving the three maps and the monitored set unchanged.
C13_SlHuntRejectsNonPositiveStopLoss ==
    [][ call'.op = "register_sl_hunt" =>
        \A trade \in trade_inputs, logic \in Logics :
            (/\ trade.symbol = call'.symbol
             /\ (trade.chain_id = None \/ trade.sl <= 0)
             /\ register_sl_hunt(trade, logic))
            => RegistryUnchanged ]_vars

\* C14: register_tp_continuation rejects a take-profit price that is zero or negative
\* or a trade without chain id, register_exit_continuation rejects an exit price that
\* is zero or negative; a rejected call leaves maps and monitored set unchanged.
C14_ContinuationRejectsNonPositivePrice ==
    [][ /\ call'.op = "register_tp_continuation" =>
            \A trade \in ContinuationTrades(trade_inputs), tp_price \in RegistryPrices, logic \in Logics :
              (/\ trade.symbol = call'.symbol
               /\ (trade.chain_id = None \/ tp_price <= 0)
               /\ register_tp_continuation(trade, tp_price, logic))
              => RegistryUnchanged
        /\ call'.op = "register_exit_continuation" =>
            \A trade \in ContinuationTrades(trade_inputs), exit_price \in RegistryPrices, logic \in Logics :
              (/\ trade.symbol = call'.symbol
               /\ exit_price <= 0
               /\ register_exit_continuation(trade, exit_price, logic))
              => RegistryUnchanged ]_vars

\* C15: a registration that is rejected or hits an internal error (register_sl_hunt
\* for a symbol missing from the symbol configuration) raises nothing to the caller
\* and leaves the three pending maps and the monitored-symbol set as they were.
RejectedRegistrationChangesNothing ==
    /\ (call'.op \in RegisterOps /\ call'.outcome \in {"rejected", "error"})
       => RegistryUnchanged
    /\ call'.op = "register_sl_hunt" =>
        \A trade \in trade_inputs, logic \in Logics :
          (/\ trade.symbol = call'.symbol
           /\ trade.symbol \notin ConfiguredSymbols
           /\ register_sl_hunt(trade, logic))
          => RegistryUnchanged

C15_ValidationBeforeMutation ==
    [](call.outcome # "raised") /\ [][RejectedRegistrationChangesNothing]_vars

\* register_sl_hunt for the unconfigured GBPUSD ended in the caught KeyError
C15_Witness ==
    /\ call.op = "register_sl_hunt"
    /\ call.symbol = "GBPUSD"
    /\ call.outcome = "error"
    /\ "GBPUSD" \notin DOMAIN sl_hunt_pending

\* C16: stop_tp_continuation and stop_exit_continuation remove exactly the symbol's
\* entry of their kind and nothing else, change nothing and raise nothing when the
\* symbol has no entry, and applied twice leave the state of one application.
CancelRemovesOneEntry ==
    /\ call'.op = "stop_tp_continuation" =>
        \A symbol \in RegistrySymbols :
          (symbol = call'.symbol /\ stop_tp_continuation(symbol))
          => /\ DOMAIN tp_continuation_pending' = DOMAIN tp_continuation_pending \ {symbol}
             /\ \A s \in DOMAIN tp_continuation_pending' :
                    tp_continuation_pending'[s] = tp_continuation_pending[s]
             /\ UNCHANGED <<sl_hunt_pending, exit_continuation_pending, monitored_symbols,
                            is_running, pc, active_chains, open_trades>>
    /\ call'.op = "stop_exit_continuation" =>
        \A symbol \in RegistrySymbols :
          (symbol = call'.symbol /\ stop_exit_continuation(symbol))
          => /\ DOMAIN exit_continuation_pending' =
                    DOMAIN exit_continuation_pending \ {symbol}
             /\ \A s \in DOMAIN exit_continuation_pending' :
                    exit_continuation_pending'[s] = exit_continuation_pending[s]
             /\ UNCHANGED <<sl_hunt_pending, tp_continuation_pending, monitored_symbols,
                            is_running, pc, active_chains, open_trades>>

\* the same cancel called again, directly after the first call
CancelTwiceIsCancelOnce ==
    (/\ call.op \in {"stop_tp_continuation", "stop_exit_continuation"}
     /\ call'.op = call.op
     /\ call'.symbol = call.symbol)
    => (RegistryUnchanged /\ call'.outcome = "absent")

C16_CancelIsIdempotent ==
    [](call.outcome # "raised") /\ [][CancelRemovesOneEntry /\ CancelTwiceIsCancelOnce]_vars

\* a cancel for a symbol without TP-continuation entry, another symbol's entry in place
C16_Witness ==
    /\ call.op = "stop_tp_continuation"
    /\ call.outcome = "absent"
    /\ call.symbol \notin DOMAIN tp_continuation_pending
    /\ tp_continuation_pending # << >>

\* C17: get_service_status changes no service state, and the snapshot it returns holds
\* the sizes of the three pending maps as counts and their contents as details.
SnapshotIsFaithful ==
    call.op = "get_service_status"
    => /\ call.status.pending_counts.sl_hunt = Cardinality(DOMAIN sl_hunt_pending)
       /\ call.status.pending_counts.tp_continuation =
              Cardinality(DOMAIN tp_continuation_pending)
       /\ call.status.pending_counts.exit_continuation =
              Cardinality(DOMAIN exit_continuation_pending)
       /\ call.status.pending_details.sl_hunt = sl_hunt_pending
       /\ call.status.pending_details.tp_continuation = tp_continuation_pending
       /\ call.status.pending_details.exit_continuation = exit_continuation_pending

StatusHasNoEffect ==
    call'.op = "get_service_status"
    => UNCHANGED <<sl_hunt_pending, tp_continuation_pending, exit_continuation_pending,
                   monitored_symbols, is_running, pc, monitor_tasks, active_chains,
                   open_trades, profit_chains, config>>

C17_StatusIsPureSnapshot == []SnapshotIsFaithful /\ [][StatusHasNoEffect]_vars

\* a snapshot taken with two TP-continuation triggers and one SL-hunt trigger pending
C17_Witness ==
    /\ call.op = "get_service_status"
    /\ call.status.pending_counts.tp_continuation = 2
    /\ call.status.pending_counts.sl_hunt = 1
    /\ call.status.pending_counts.exit_continuation = 0

-----------------------------------------------------------------------------
\* Vocabulary of the profit-booking properties

\* every order of the chain's current level is closed, booked or otherwise
CurrentLevelClosed(chain_id) ==
    \A order \in Orders :
        OrderLevel(order) = profit_chains[chain_id].current_level
        => profit_chains[chain_id].orders[order] = "closed"

\* C18: no profit-booking order is booked twice: over all cycles the booking of an
\* order succeeds at most once, and within one cycle the booking operation is called
\* at most once per order.
C18_NoOrderBookedTwice ==
    \A order \in Orders : booked[order] <= 1 /\ book_calls[order] <= 1

\* o1 was booked in an earlier cycle; this cycle's booking call is for o2
C18_Witness ==
    /\ pc = "pb_book_await"
    /\ pb_order = "o2"
    /\ booked["o1"] = 1
    /\ book_calls["o1"] = 0
    /\ book_calls["o2"] = 1

\* C19: a profit-booking chain's level changes only by one, and only in a state where
\* every order of its current level is closed; while a current-level order is open
\* no step changes the level.
LevelAdvancesOnlyWhenClosed ==
    \A chain_id \in DOMAIN profit_chains :
        profit_chains'[chain_id].current_level # profit_chains[chain_id].current_level
        => /\ CurrentLevelClosed(chain_id)
           /\ profit_chains'[chain_id].current_level =
                  profit_chains[chain_id].current_level + 1

C19_AdvanceOnlyWhenLevelClosed == [][LevelAdvancesOnlyWhenClosed]_vars

\* both level-0 orders were booked and the chain is at level 1 with its order open
C19_Witness ==
    /\ profit_chains["PB1"].current_level = 1
    /\ booked["o1"] = 1
    /\ booked["o2"] = 1
    /\ profit_chains["PB1"].orders["o3"] = "open"

\* C20: once every order of a chain's current level is closed, booked by the loop or
\* closed by other means, the running loop eventually advances the chain.
C20_ClosedLevelEventuallyAdvances ==
    \A chain_id \in ProfitChainIds :
        (/\ profit_chains[chain_id].current_level = 0
         /\ CurrentLevelClosed(chain_id))
        ~> (profit_chains[chain_id].current_level > 0 \/ ~is_running)

-----------------------------------------------------------------------------
\* C21: the SL adjustment factor (1 - reduction_per_level) ** current_level of the two
\* executors does not increase with the level: for every reduction in (0, 1] and every
\* level L >= 0 the factor of level L + 1 is at most the factor of level L, and the
\* factor of level 0 is 1.
C21_AdjustmentNonIncreasing ==
    sizing.op = "sl_adjustment"
    => LET reduction == sizing.args.reduction_per_level
           level == sizing.args.current_level
       IN  /\ RatLeq(sl_adjustment(reduction, level + 1), sizing.result)
           /\ \A lower \in 0..level : RatLeq(sizing.result, sl_adjustment(reduction, lower))
           /\ sl_adjustment(reduction, 0) = Rat(1, 1)
           /\ RatLeq(Rat(0, 1), sizing.result)

\* the factor of the highest level was computed for a reduction strictly inside (0, 1)
C21_Witness ==
    /\ sizing.op = "sl_adjustment"
    /\ sizing.args.current_level = MaxLevel
    /\ sizing.args.reduction_per_level = Rat(1, 4)
    /\ ~RatLeq(Rat(1, 1), sizing.result)

-----------------------------------------------------------------------------
\* C22: for a symbol missing from the symbol configuration calculate_sl_price returns
\* normally for every entry price, direction and lot size (lot size 0 included): no
\* exception leaves the call, and the stop-loss is the one of the fallback constants
\* (pip size 0.01, pip value 10 per standard lot) wherever these define one.
C22_MissingSymbolNeverRaises ==
    (sizing.op = "calculate_sl_price" /\ sizing.args.symbol \notin DOMAIN symbol_config)
    => /\ sizing.result.outcome = "returned"
       /\ sizing.args.lot_size.num # 0
          => sizing.result = sl_for_fixed_loss(sizing.args.entry_price, sizing.args.direction,
                                               Rat(1, 100), Rat(10, 1), sizing.args.lot_size)

-----------------------------------------------------------------------------
\* C23: round trip between sizer and validator: for every symbol, direction, entry
\* price and positive lot size, the stop-loss returned by calculate_sl_price is accepted
\* by validate_sl_loss (valid, with the actual loss within 5% of the 10 dollars), also
\* for a symbol missing from the configuration.
C23_SizerAnswerIsValidated ==
    LET a == sizing.args IN
    (/\ sizing.op = "validate_sl_loss"
     /\ RatLeq(Rat(0, 1), a.lot_size) /\ a.lot_size.num # 0
     /\ calculate_sl_price(a.entry_price, a.direction, a.symbol, a.lot_size)
            = Returned(a.sl_price, RatAbs(RatSub(a.entry_price, a.sl_price))))
    => /\ sizing.result.valid
       /\ RatLeq(RatAbs(RatSub(sizing.result.actual_loss, fixed_sl_dollar)),
                 RatMul(fixed_sl_dollar, Rat(1, 20)))

-----------------------------------------------------------------------------
\* C24: within a cycle the categories are evaluated in the fixed order SL-hunt,
\* TP-continuation, exit-continuation, profit-booking, each in a single pass over a
\* snapshot of its pending symbols: every pending trigger is evaluated at most once per
\* cycle, and a trigger registered or re-registered during a pass is not evaluated
\* again by that pass.

ProfitPositions == {"pb", "pb_chains", "pb_book_await", "pb_progress_await"}

\* the positions of the loop task follow one another in the order of the categories
OrderIsFixed ==
    pc' # pc
    => /\ pc' = "sl" => pc \in {"created", "sleep", "sleep_err"}
       /\ pc' = "tp" => pc = "sl"
       /\ pc' = "exit" => pc \in {"tp", "exit_await"}
       /\ pc' = "exit_await" => pc = "exit"
       /\ pc' = "pb" => pc = "exit"
       /\ pc' \in ProfitPositions \ {"pb"} => pc \in ProfitPositions
       /\ pc' = "sleep" => pc \in ProfitPositions

\* a pass iterates over the key snapshot taken when it starts: an evaluation takes its
\* symbol out of the snapshot, and nothing is added to the snapshot while the pass runs,
\* whatever is registered meanwhile
SinglePassOverSnapshot ==
    /\ \A kind \in Passes :
          /\ (pc = kind /\ last' # NoEval) => (last'.sym \in todo /\ last'.sym \notin todo')
          /\ (pc' = kind /\ pc \notin {kind, "exit_await"}) => todo' = DOMAIN Pending(kind)
          /\ (pc = kind /\ pc' \in {kind, "exit_await"}) => todo' \subseteq todo
    /\ pc = "exit_await" => (todo' \subseteq todo /\ cur \notin todo)
    /\ (pc = "exit_await" /\ pc' = "exit_await") => (todo' = todo /\ cur' = cur)

C24_FixedOrderSinglePass == [][OrderIsFixed /\ SinglePassOverSnapshot]_vars

\* the exit-continuation pass is suspended in the fire of one symbol while the other
\* symbol has a pending trigger outside the rest of the snapshot
C24_Witness ==
    /\ pc = "exit_await"
    /\ todo = {}
    /\ \E symbol \in DOMAIN exit_continuation_pending : symbol # cur

-----------------------------------------------------------------------------
\* C25: each re-entry executed by the loop advances its chain by exactly one level, the
\* trade it creates carries chain_level = the chain's level before the advance + 1, and
\* no operation of the loop ever decreases a chain's level.

ReentryAdvancesByOne ==
    ReentryMade
    => LET trade == open_trades'[Len(open_trades')]
           chain_id == trade.chain_id
       IN  /\ Len(open_trades') = Len(open_trades) + 1
           /\ chain_id \in DOMAIN active_chains
           /\ active_chains'[chain_id].current_level
                  = active_chains[chain_id].current_level + 1
           /\ trade.chain_level = active_chains[chain_id].current_level + 1
           /\ \A other \in DOMAIN active_chains \ {chain_id} :
                  active_chains'[other] = active_chains[other]

LevelsNeverDecrease ==
    /\ DOMAIN active_chains \subseteq DOMAIN active_chains'
    /\ \A chain_id \in DOMAIN active_chains :
          active_chains'[chain_id].current_level >= active_chains[chain_id].current_level
    /\ ~ReentryMade => active_chains' = active_chains

C25_ReentryAdvancesChainByOne == [][ReentryAdvancesByOne /\ LevelsNeverDecrease]_vars

\* two re-entries were made for one chain, which stands at the level of the second
C25_Witness ==
    /\ Len(open_trades) = 2
    /\ open_trades[1].chain_id = open_trades[2].chain_id
    /\ open_trades[1].chain_level = 1
    /\ open_trades[2].chain_level = 2
    /\ active_chains[open_trades[2].chain_id].current_level = 2

-----------------------------------------------------------------------------
\* the SL adjustment of the chain's trade of the given level: that of the re-entry
\* trade of that level, and 1 (no reduction) for the chain's first trade at level 0,
\* which no executor made
AdjustmentOfLevel(chain_id, level) ==
    IF \E i \in 1..Len(open_trades) :
            open_trades[i].chain_id = chain_id /\ open_trades[i].chain_level = level
    THEN LET i == CHOOSE i \in 1..Len(open_trades) :
                    open_trades[i].chain_id = chain_id /\ open_trades[i].chain_level = level
         IN  open_trades[i].sl_adjustment
    ELSE Rat(1, 1)

\* C26: when an SL-hunt trigger fires with an aligned bullish trend for a buy chain at
\* level L below its max, the re-entry is created at level L + 1 with a stop-loss
\* adjustment tighter than that of the chain's level-L trade by the factor
\* (1 - reduction_per_level), for every L >= 0, the first re-entry of a chain at level 0
\* included.
C26_ReentryTighterThanPriorLevel ==
    [][ (/\ pc = "sl" /\ ReentryMade
         /\ sl_hunt_pending[last'.sym].direction = "buy"
         /\ GatePassed(last'.gate, "buy"))
        => LET trade == open_trades'[Len(open_trades')]
               level == active_chains[trade.chain_id].current_level
           IN  /\ trade.chain_level = level + 1
               /\ trade.sl_adjustment
                      = RatMul(AdjustmentOfLevel(trade.chain_id, level),
                               RatSub(Rat(1, 1), config.sl_reduction_per_level)) ]_vars

-----------------------------------------------------------------------------
\* C27: each TP-continuation re-entry writes exactly one audit row, whose level is the
\* chain level recorded on the re-entry trade (the level before the advance + 1) and
\* whose SL-reduction percent is (1 - adjustment factor) x 100 of that trade; no row is
\* written when no re-entry is made.
C27_AuditRowDocumentsReentry ==
    [][ pc = "tp"
        => /\ (ReentryMade /\ ~last'.result = "raised")
              => LET trade == open_trades'[Len(open_trades')] IN
                 /\ last'.audit
                 /\ last'.row.chain_id = trade.chain_id
                 /\ last'.row.symbol = trade.symbol
                 /\ last'.row.level = trade.chain_level
                 /\ last'.row.sl_reduction_percent
                        = RatMul(RatSub(Rat(1, 1), trade.sl_adjustment), Rat(100, 1))
           /\ ~ReentryMade => (~last'.audit /\ last'.row = NoAuditRow) ]_vars

-----------------------------------------------------------------------------
\* C28: firing an exit-continuation trigger submits exactly one fresh entry alert
\* (signal = the trigger's direction, type entry, price = the current price) to the
\* trading engine, never advances or otherwise mutates a re-entry chain, leaves the
\* SL-hunt and TP-continuation maps unchanged, and then, the engine's call having
\* returned, removes the trigger.

\* the fire: the iteration reaches `await self.trading_engine.process_alert(entry_signal)`
ExitFireSubmitsEntryAlert ==
    (pc = "exit" /\ pc' = "exit_await")
    => LET symbol == last'.sym
           pending == exit_continuation_pending[symbol]
       IN  /\ cur' = symbol
           /\ last'.order = "alert"
           /\ last'.price_ok
           /\ price_reached(pending.direction, last'.price, TargetOf("exit", symbol))
           /\ GatePassed(last'.gate, pending.direction)
           /\ last'.alert = [symbol |-> symbol, signal |-> pending.direction,
                             type |-> "entry", price |-> last'.price]

\* one alert per fire: no evaluation that does not fire submits one, and the rest of
\* the iteration after the await submits no second one
ExitAlertOnlyOnFire ==
    /\ (pc = "exit" /\ pc' # "exit_await" /\ last' # NoEval)
       => (last'.alert = NoAlert /\ last'.order = "not_called")
    /\ (pc = "exit_await" /\ LoopTaskStep) => last'.alert = last.alert

\* frame of the exit-continuation pass
ExitPassFrame ==
    (pc \in {"exit", "exit_await"} /\ LoopTaskStep)
    => /\ active_chains' = active_chains
       /\ open_trades' = open_trades
       /\ sl_hunt_pending' = sl_hunt_pending
       /\ tp_continuation_pending' = tp_continuation_pending
       /\ \A symbol \in DOMAIN exit_continuation_pending :
              symbol # last'.sym => /\ symbol \in DOMAIN exit_continuation_pending'
                                    /\ exit_continuation_pending'[symbol]
                                           = exit_continuation_pending[symbol]

\* process_alert has returned: the trigger is removed
ExitFireRemovesTrigger ==
    (pc = "exit_await" /\ last'.result = "executed")
    => /\ last'.sym = cur
       /\ cur \notin DOMAIN exit_continuation_pending'

-----------------------------------------------------------------------------
\* C29: no registration is lost to a race with the loop: an exit-continuation
\* registration for symbol S made while the loop is between reading and removing the
\* pending entry of S (its fire is awaiting the trading engine) is still pending when
\* the loop has removed what it read and the cycle completes.
C29_RegistrationInAwaitIsKept ==
    [][ (exit_continuation_resume(TRUE) /\ registered_in_await)
        => cur \in DOMAIN exit_continuation_pending' ]_vars

-----------------------------------------------------------------------------
\* C30: a stop_exit_continuation(S) call made while the fire of S's exit-continuation
\* trigger is awaiting the trading engine does not make the cycle fail: when the
\* engine's call returns, the loop's removal of S is harmless and the pass goes on with
\* the remaining exit-continuation triggers (and then the profit-booking chains).
C30_CancelInAwaitIsHarmless ==
    [][ (exit_continuation_resume(TRUE) /\ cur \notin DOMAIN exit_continuation_pending)
        => (pc' = "exit" /\ todo' = todo
            /\ exit_continuation_pending' = exit_continuation_pending) ]_vars

-----------------------------------------------------------------------------
\* C32: a failure of the notification call made at the end of a re-entry neither blocks
\* nor aborts the loop: the trigger that fired is still removed, and the remaining
\* pending triggers and categories of the cycle are still evaluated.
C32_NotificationFailureIsContained ==
    [][ \A kind \in ReentryKinds :
            (/\ pc = kind /\ ReentryMade
             /\ ~last'.notify
             /\ kind = "tp" => last'.audit)
            => /\ last'.sym \notin DOMAIN Pending(kind)'
               /\ pc' = kind
               /\ todo' = todo \ {last'.sym} ]_vars

-----------------------------------------------------------------------------
\* C34: in live mode the loop advances a chain and appends a re-entry trade only if the
\* broker returned a trade id for the order: no trade with a null broker trade id is
\* ever in the open-trade set.
C34_LiveTradesHaveBrokerId ==
    ~config.simulate_orders
    => \A i \in 1..Len(open_trades) : open_trades[i].trade_id # None

-----------------------------------------------------------------------------
\* C33: target derivation.  The SL-hunt target is fixed at registration as the stop-loss
\* plus offsetPips x pipSize for a buy and minus it for a sell (SL 10, 1 pip of 1 tick,
\* buy: 11); the TP- and exit-continuation triggers are compared with the reference
\* price plus gapPips x pipSize for a buy and minus it for a sell (TP 10, 2 pips of 2
\* ticks, sell: 6).
SlHuntTargetFixedAtRegistration ==
    \A s \in DOMAIN sl_hunt_pending :
        LET p == sl_hunt_pending[s] IN
        p.target_price = IF p.direction = "buy"
                         THEN p.sl_price + OffsetPips * pip_size(s)
                         ELSE p.sl_price - OffsetPips * pip_size(s)

ReferenceOf(kind, symbol) ==
    IF kind = "tp" THEN tp_continuation_pending[symbol].tp_price
                   ELSE exit_continuation_pending[symbol].exit_price

ContinuationTargetDerived ==
    \A kind \in {"tp", "exit"} :
        (pc = kind /\ last' # NoEval /\ last'.price_ok /\ last'.sym \in ConfiguredSymbols)
        => LET s == last'.sym
               gap == GapPips * pip_size(s)
               reached == IF Pending(kind)[s].direction = "buy"
                          THEN last'.price >= ReferenceOf(kind, s) + gap
                          ELSE last'.price <= ReferenceOf(kind, s) - gap
           IN (last'.result = "not_reached") <=> ~reached

C33_TargetDerivation ==
    []SlHuntTargetFixedAtRegistration /\ [][ContinuationTargetDerived]_vars

C33_Witness ==
    /\ last.kind = "tp" /\ last.sym = "EURUSD"
    /\ last.price_ok /\ last.price = 6
    /\ last.result \notin {"not_reached", "no_price"}
    /\ "XAUUSD" \in DOMAIN sl_hunt_pending
    /\ sl_hunt_pending["XAUUSD"].sl_price = 10
    /\ sl_hunt_pending["XAUUSD"].target_price = 11

-----------------------------------------------------------------------------
\* C35: when the SL-hunt and the TP-continuation trigger of one symbol and chain are
\* both reached and aligned in one cycle, each fires at most once in that cycle, the
\* TP-continuation evaluation works on the chain level the SL-hunt re-entry has left,
\* and the chain never exceeds max_level: if the SL-hunt re-entry exhausted the chain,
\* the TP-continuation trigger is dropped without a re-entry.
LatestTradeOf(chain_id) ==
    LET idx == {i \in 1..Len(open_trades) : open_trades[i].chain_id = chain_id} IN
    open_trades[CHOOSE i \in idx : \A j \in idx : j <= i]

SlHuntFiresOncePerCycle ==
    (pc = "sl" /\ ReentryMade) => /\ last'.sym \notin sl_pass_reentries
                                  /\ last'.sym \notin todo'

TpAfterSlHuntInSameCycle ==
    (/\ pc = "tp" /\ last' # NoEval
     /\ last'.sym \in sl_pass_reentries
     /\ GatePassed(last'.gate, tp_continuation_pending[last'.sym].direction))
    => LET s == last'.sym
           c == tp_continuation_pending[s].chain_id
           seen == active_chains[c].current_level
       IN /\ s \notin todo'
          /\ LatestTradeOf(c).chain_level = seen
          /\ IF seen >= active_chains[c].max_level
             THEN /\ ~ReentryMade
                  /\ active_chains' = active_chains
                  /\ s \notin DOMAIN tp_continuation_pending'
             ELSE ReentryMade
                  => /\ Len(open_trades') = Len(open_trades) + 1
                     /\ open_trades'[Len(open_trades')].chain_level = seen + 1
                     /\ active_chains'[c].current_level = seen + 1

C35_SlHuntThenTpInOneCycle ==
    /\ []LevelsWithinMax
    /\ [][SlHuntFiresOncePerCycle /\ TpAfterSlHuntInSameCycle]_vars

C35_Witness ==
    /\ pc = "tp"
    /\ last.kind = "tp" /\ last.sym = "XAUUSD" /\ last.result = "executed"
    /\ "XAUUSD" \in sl_pass_reentries
    /\ active_chains["chain_XAUUSD"].current_level = 2
    /\ Len(open_trades) = 2

-----------------------------------------------------------------------------
\* C39: start() and stop() never add, remove or modify a pending trigger, and no
\* trigger expires through elapsed time: a trigger registered before stop() or while
\* the service is stopped is still pending after the next start() and is in the
\* snapshot of the first cycle that follows; a pending trigger leaves the registry only
\* by firing, by a gating rejection, by an explicit cancellation or by being overwritten.
PendingMapsUnchanged ==
    UNCHANGED <<sl_hunt_pending, tp_continuation_pending, exit_continuation_pending>>

StartStopKeepTriggers == (start \/ stop) => PendingMapsUnchanged

FirstCycleTakesAllPending ==
    /\ CycleStart => (PendingMapsUnchanged /\ todo' = DOMAIN sl_hunt_pending)
    /\ tp_continuation_pass_done => (PendingMapsUnchanged /\ todo' = DOMAIN exit_continuation_pending)
    /\ sl_hunt_pass_done => (PendingMapsUnchanged /\ todo' = DOMAIN tp_continuation_pending)

\* the pending trigger (kind, s) is removed or replaced by this step
LeavesRegistry(kind, s) ==
    \/ s \notin DOMAIN Pending(kind)'
    \/ Pending(kind)'[s] # Pending(kind)[s]

\* the loop fired the trigger (kind, s) it had read, or dropped it at the gate or at
\* the chain test
FiredOrGated(kind, s) ==
    /\ Evaluates(kind)
    /\ last'.sym = s
    /\ last'.result \in {"executed", "gate_drop", "chain_drop"}
    /\ (pc = "exit_await") => ~registered_in_await

Cancelled(kind, s) ==
    \/ kind = "tp" /\ stop_tp_continuation(s)
    \/ kind = "exit" /\ stop_exit_continuation(s)

Overwritten(kind, s) ==
    /\ s \in DOMAIN Pending(kind)'
    /\ ~LoopTaskStep

LeavesOnlyByCause ==
    \A kind \in Passes, s \in Symbols :
        (s \in DOMAIN Pending(kind) /\ LeavesRegistry(kind, s))
        => (FiredOrGated(kind, s) \/ Cancelled(kind, s) \/ Overwritten(kind, s))

C39_TriggersOutliveStartStop ==
    [][StartStopKeepTriggers /\ FirstCycleTakesAllPending /\ LeavesOnlyByCause]_vars

-----------------------------------------------------------------------------
\* C31: in simulation mode (simulate_orders true) a pending SL-hunt or TP-continuation
\* trigger whose price condition is met is still fired: the alignment gate is asked
\* and, when it lets the trigger through and the chain is open, the broker order is
\* skipped, the chain is advanced, the trade is appended with a null broker trade id;
\* the trigger is removed.
C31_SimulationFiresReachedTrigger ==
    [][ \A kind \in ReentryKinds :
            (/\ config.simulate_orders
             /\ pc = kind /\ last' # NoEval
             /\ price_reached(Pending(kind)[last'.sym].direction, last'.price,
                              TargetOf(kind, last'.sym)))
            => LET s == last'.sym
                   c == Pending(kind)[s].chain_id
               IN /\ last'.price_ok
                  /\ last'.gate.called
                  /\ s \notin DOMAIN Pending(kind)'
                  /\ (GatePassed(last'.gate, Pending(kind)[s].direction) /\ ~chain_blocked(c))
                     => /\ ReentryMade
                        /\ last'.order = "not_called"
                        /\ open_trades'[Len(open_trades')].trade_id = None
                        /\ active_chains'[c].current_level =
                               active_chains[c].current_level + 1 ]_vars

-----------------------------------------------------------------------------
\* C38: while the feature flag of a trigger kind is disabled, registrations of that
\* kind are still accepted, and a pass of that kind evaluates nothing and removes
\* nothing: the pending triggers of the kind stay as they are over any number of
\* cycles, and the first pass that starts with the flag enabled takes all of them.
FlagOf(kind) ==
    IF kind = "sl" THEN config.sl_hunt_reentry_enabled
    ELSE IF kind = "tp" THEN config.tp_reentry_enabled
    ELSE config.exit_continuation_enabled

\* this step starts the pass of the kind: the flag test and the snapshot
PassStarts(kind) == pc' = kind /\ pc \notin {kind, "exit_await"}

RegistrationIgnoresFlag ==
    /\ \A trade \in trade_inputs, logic \in Logics :
          (~FlagOf("sl") /\ trade.chain_id # None /\ trade.sl # 0
           /\ register_sl_hunt(trade, logic))
          => /\ trade.symbol \in DOMAIN sl_hunt_pending'
             /\ sl_hunt_pending'[trade.symbol].sl_price = trade.sl
    /\ \A trade \in trade_inputs, price \in RefPrices, logic \in Logics :
          /\ (~FlagOf("tp") /\ trade.chain_id # None /\ price # 0
               /\ register_tp_continuation(trade, price, logic))
              => /\ trade.symbol \in DOMAIN tp_continuation_pending'
                 /\ tp_continuation_pending'[trade.symbol].tp_price = price
          /\ (~FlagOf("exit") /\ price # 0
               /\ register_exit_continuation(trade, price, logic))
              => /\ trade.symbol \in DOMAIN exit_continuation_pending'
                 /\ exit_continuation_pending'[trade.symbol].exit_price = price

DisabledPassKeepsTriggers ==
    \A kind \in Passes :
        /\ (PassStarts(kind) /\ ~FlagOf(kind))
           => (todo' = {} /\ last' = NoEval /\ Pending(kind)' = Pending(kind))
        /\ (PassStarts(kind) /\ FlagOf(kind))
           => (todo' = DOMAIN Pending(kind) /\ Pending(kind)' = Pending(kind))
        /\ (LoopTaskStep /\ ((pc = kind /\ todo = {}) \/ pc \notin {kind, "exit_await"}))
           => (~Evaluates(kind) /\ Pending(kind)' = Pending(kind))

C38_DisabledKindStaysPending ==
    [][RegistrationIgnoresFlag /\ DisabledPassKeepsTriggers]_vars

C38_Witness ==
    /\ ~config.tp_reentry_enabled
    /\ pc = "tp" /\ todo = {} /\ last = NoEval
    /\ "XAUUSD" \in DOMAIN tp_continuation_pending

-----------------------------------------------------------------------------
\* C36: a TP-continuation trigger registered for a symbol that the symbol
\* configuration does not have is accepted by the registration, and from then on every
\* cycle that obtains a price for it aborts at its evaluation: the loop never removes
\* the trigger, and the exit-continuation triggers and the profit-booking chains are
\* not evaluated in such a cycle, until the trigger is cancelled.
UnconfiguredTpAccepted ==
    \A trade \in trade_inputs, tp_price \in RefPrices, logic \in Logics :
        (/\ trade.symbol \notin ConfiguredSymbols
         /\ trade.chain_id # None /\ tp_price # 0
         /\ register_tp_continuation(trade, tp_price, logic))
        => /\ trade.symbol \in DOMAIN tp_continuation_pending'
           /\ tp_continuation_pending'[trade.symbol].tp_price = tp_price

UnconfiguredTpAbortsCycle ==
    (/\ pc = "tp" /\ last' # NoEval
     /\ last'.sym \notin ConfiguredSymbols
     /\ last'.price_ok)
    => /\ last'.result = "raised"
       /\ pc' = "raised" /\ todo' = {}
       /\ PendingMapsUnchanged
       /\ UNCHANGED <<active_chains, open_trades, profit_vars>>

AbortedCycleSkipsRest ==
    pc = "raised" => (pc' = "sleep_err" /\ PendingMapsUnchanged /\ UNCHANGED profit_vars)

UnconfiguredTpStaysUntilCancelled ==
    \A s \in DOMAIN tp_continuation_pending :
        s \notin ConfiguredSymbols
        => /\ LoopTaskStep => /\ s \in DOMAIN tp_continuation_pending'
                              /\ tp_continuation_pending'[s] = tp_continuation_pending[s]
           /\ stop_tp_continuation(s) => s \notin DOMAIN tp_continuation_pending'

C36_UnconfiguredTpTriggerAbortsCycles ==
    [][/\ UnconfiguredTpAccepted
       /\ UnconfiguredTpAbortsCycle
       /\ AbortedCycleSkipsRest
       /\ UnconfiguredTpStaysUntilCancelled]_vars

C36_Witness ==
    /\ pc = "raised"
    /\ last.kind = "tp" /\ last.sym = "GBPUSD" /\ last.price_ok /\ last.result = "raised"
    /\ "GBPUSD" \in DOMAIN tp_continuation_pending
    /\ "XAUUSD" \in DOMAIN exit_continuation_pending

-----------------------------------------------------------------------------
\* C37: an exception raised while one profit-booking chain is processed (validation,
\* target check, booking or progression) is contained to that chain: the chains the
\* pass has not yet visited are still processed in the same cycle, and the cycle ends
\* in its normal sleep, never in the handler of the monitor loop.
PassPositions == {"pb_chains", "pb_book_await", "pb_progress_await"}

ChainExceptionContained ==
    \A c \in DOMAIN profit_chains :
        (c \notin pb_failed /\ c \in pb_failed')
        => /\ pc' = "pb_chains"
           /\ pb_todo' = pb_todo \ {c}
           /\ \A d \in DOMAIN profit_chains : d # c => profit_chains'[d] = profit_chains[d]

RemainingChainsProcessed ==
    /\ (pc = "pb_chains" /\ pb_todo # {} /\ LoopTaskStep)
       => (pc' \in PassPositions /\ pb_todo' # pb_todo /\ pb_todo' \subseteq pb_todo)
    /\ (pc \in PassPositions /\ pc' \notin PassPositions /\ LoopTaskStep)
       => (pb_todo = {} /\ pc' = "sleep")

C37_ChainExceptionIsContained ==
    /\ [](pc # "raised")
    /\ [][ChainExceptionContained /\ RemainingChainsProcessed]_vars

C37_Witness ==
    /\ pc = "pb_book_await"
    /\ pb_chain = "PB2"
    /\ pb_failed = {"PB1"}

====
